---- MODULE Spec2Model ----
(***************************************************************************)
(* Tapeworm: image-sequence inference (image_sequence.py), the filename    *)
(* utilities it rests on (utils.py) and the batch renamer                  *)
(* (input_output.py).                                                      *)
(*                                                                         *)
(* Strings are sequences of one-character strings.  Python indices are     *)
(* 0-based; the operators below keep Python's indices and convert at the   *)
(* point of access.                                                        *)
(***************************************************************************)
EXTENDS Integers, Sequences, FiniteSets, TLC

VARIABLES
    fs,      \* the filesystem: directory -> (entry name -> [kind, data])
    im,      \* the ImageSequence instance (or the failure of its constructor)
    io,      \* the InputOutput instance
    rn,      \* the frame of a running rename_sequence_files call
    res      \* the last query and what it returned

vars == <<fs, im, io, rn, res>>

\* ------------------------------------------------------------------ bounds

MaxFiles == 3
MaxCounter == 3
MaxOffset == 2
WideOffset == 8
MaxLen == 4
MaxWidth == 11

\* The number of characters on either side of a specifier that is stripped.
MaxSide == 2

\* -------------------------------------------------------------- characters

DigitChars == <<"0", "1", "2", "3", "4", "5", "6", "7", "8", "9">>

LowerChars == <<"a", "b", "c", "d", "e", "f", "g", "h", "i", "j", "k", "l", "m",
                "n", "o", "p", "q", "r", "s", "t", "u", "v", "w", "x", "y", "z">>

UpperChars == <<"A", "B", "C", "D", "E", "F", "G", "H", "I", "J", "K", "L", "M",
                "N", "O", "P", "Q", "R", "S", "T", "U", "V", "W", "X", "Y", "Z">>

\* The characters in ASCII order (the order of str comparison).
AsciiChars == <<" ", "$", "%", "(", ")", "+", ",", "-", ".">> \o DigitChars
              \o UpperChars \o <<"\\", "^", "_">> \o LowerChars \o <<"{", "}">>

ord(c) == CHOOSE i \in 1..Len(AsciiChars) : AsciiChars[i] = c

char_isdigit(c) == \E i \in 1..10 : DigitChars[i] = c

digit_value(c) == (CHOOSE i \in 1..10 : DigitChars[i] = c) - 1

char_upper(c) ==
    IF \E i \in 1..26 : LowerChars[i] = c
    THEN UpperChars[CHOOSE i \in 1..26 : LowerChars[i] = c]
    ELSE c

\* ----------------------------------------------------------------- strings

Min(a, b) == IF a < b THEN a ELSE b

Max(a, b) == IF a > b THEN a ELSE b

\* s[a:b] with Python's clipping, for 0 <= a.
slice(s, a, b) == SubSeq(s, a + 1, Min(b, Len(s)))

\* s[a:]
slice_from(s, a) == SubSeq(s, a + 1, Len(s))

str_upper(s) == [i \in 1..Len(s) |-> char_upper(s[i])]

\* str.isdigit(): non-empty and every character a decimal digit.
str_isdigit(s) == Len(s) > 0 /\ \A i \in 1..Len(s) : char_isdigit(s[i])

\* s.strip(".")
RECURSIVE lstrip_dots(_)
lstrip_dots(s) == IF Len(s) > 0 /\ s[1] = "." THEN lstrip_dots(Tail(s)) ELSE s

RECURSIVE rstrip_dots(_)
rstrip_dots(s) ==
    IF Len(s) > 0 /\ s[Len(s)] = "." THEN rstrip_dots(SubSeq(s, 1, Len(s) - 1)) ELSE s

strip_dots(s) == rstrip_dots(lstrip_dots(s))

\* int(s) for a string of decimal digits.
RECURSIVE to_int(_)
to_int(s) ==
    IF Len(s) = 0 THEN 0
    ELSE 10 * to_int(SubSeq(s, 1, Len(s) - 1)) + digit_value(s[Len(s)])

\* str(n) for n >= 0.
RECURSIVE to_str(_)
to_str(n) ==
    IF n < 10 THEN <<DigitChars[n + 1]>>
    ELSE to_str(n \div 10) \o <<DigitChars[(n % 10) + 1]>>

\* s.zfill(width)
RECURSIVE zfill(_, _)
zfill(s, width) == IF Len(s) >= width THEN s ELSE zfill(<<"0">> \o s, width)

\* s.find(sub): the lowest 0-based index of sub in s, or -1.
str_find(s, sub) ==
    LET hits == {i \in 0..(Len(s) - Len(sub)) : slice(s, i, i + Len(sub)) = sub}
    IN  IF hits = {} THEN -1 ELSE CHOOSE i \in hits : \A j \in hits : i <= j

\* s.replace(old, new) for a non-empty old: every non-overlapping occurrence,
\* left to right.
RECURSIVE str_replace(_, _, _)
str_replace(s, old, new) ==
    LET i == str_find(s, old)
    IN  IF i < 0 THEN s
        ELSE slice(s, 0, i) \o new
             \o str_replace(slice_from(s, i + Len(old)), old, new)

\* s < t in Python's str order.
RECURSIVE str_less(_, _)
str_less(s, t) ==
    IF Len(t) = 0 THEN FALSE
    ELSE IF Len(s) = 0 THEN TRUE
    ELSE IF s[1] = t[1] THEN str_less(Tail(s), Tail(t))
    ELSE ord(s[1]) < ord(t[1])

\* Python's None and a present value.
None == [isNone |-> TRUE, val |-> <<>>]

Some(v) == [isNone |-> FALSE, val |-> v]

\* sorted(S) for a finite set of strings.
RECURSIVE sorted_strs(_)
sorted_strs(S) ==
    IF S = {} THEN <<>>
    ELSE LET m == CHOOSE x \in S : \A y \in S \ {x} : str_less(x, y)
         IN  <<m>> \o sorted_strs(S \ {m})

\* --------------------------------------------------------------- os.path

\* os.path.splitext: the extension starts at the last dot, unless only dots
\* precede it.
splitext(p) ==
    LET dots == {i \in 1..Len(p) : p[i] = "."}
        last == IF dots = {} THEN 0 ELSE CHOOSE i \in dots : \A j \in dots : j <= i
    IN  IF last > 0 /\ \E k \in 1..(last - 1) : p[k] # "."
        THEN [root |-> SubSeq(p, 1, last - 1), ext |-> SubSeq(p, last, Len(p))]
        ELSE [root |-> p, ext |-> <<>>]

path_exists(f, d, n) == n \in DOMAIN f[d]

path_isfile(f, d, n) == path_exists(f, d, n) /\ f[d][n].kind = "file"

path_isdir(f, d, n) == path_exists(f, d, n) /\ f[d][n].kind = "dir"

\* os.listdir(d), as a set: the order of a listing is the platform's.
listdir(f, d) == DOMAIN f[d]

\* ---------------------------------------------------------------- utils.py

\* An is_file that takes every extension.
is_file_unrestricted(f, d, n, restrict) ==
    IF ~path_exists(f, d, n) THEN [ok |-> FALSE, err |-> "does not exist"]
    ELSE IF ~path_isfile(f, d, n) THEN [ok |-> FALSE, err |-> "is not a filepath"]
    ELSE [ok |-> TRUE, err |-> ""]

\* is_file(path, restrict): restrict is None or Some(the allowed formats).
is_file(f, d, n, restrict) ==
    IF ~path_exists(f, d, n) THEN [ok |-> FALSE, err |-> "does not exist"]
    ELSE IF ~path_isfile(f, d, n) THEN [ok |-> FALSE, err |-> "is not a filepath"]
    ELSE IF ~restrict.isNone
            /\ str_upper(strip_dots(splitext(n).ext)) \notin restrict.val
    THEN [ok |-> FALSE, err |-> "is not a supported file format"]
    ELSE [ok |-> TRUE, err |-> ""]

\* fetch_dir(path, restrict, sort_files=True): the sorted list of the files of
\* an allowed format.
fetch_dir(f, d, restrict) ==
    sorted_strs({n \in listdir(f, d) : is_file(f, d, n, restrict).ok})

\* The loop of split_at_digit from Python index i on: a character of the class
\* of its predecessor extends the current substring, another begins a new one.
RECURSIVE split_loop(_, _, _, _)
split_loop(root, i, prev_isdigit, split_root) ==
    IF i >= Len(root) THEN split_root
    ELSE LET char == root[i + 1]
             same == (~char_isdigit(char) /\ ~prev_isdigit)
                     \/ (char_isdigit(char) /\ prev_isdigit)
         IN  split_loop(root, i + 1, char_isdigit(char),
                        IF same
                        THEN [split_root EXCEPT ![Len(split_root)] = @ \o <<char>>]
                        ELSE Append(split_root, <<char>>))

RECURSIVE str_join(_)
str_join(parts) == IF Len(parts) = 0 THEN <<>> ELSE Head(parts) \o str_join(Tail(parts))

\* A split_at_digit that always joins the midsection.
split_at_digit_joined(root, join_mid) ==
    LET split_root == split_loop(root, 1, char_isdigit(root[1]), <<<<root[1]>>>>)
        midsection == SubSeq(split_root, 2, Len(split_root) - 1)
    IN  [head |-> split_root[1],
         mid  |-> IF Len(split_root) < 3 THEN [kind |-> "none", val |-> <<>>]
                  ELSE [kind |-> "str", val |-> <<str_join(midsection)>>],
         tail |-> IF Len(split_root) < 2 THEN None ELSE Some(split_root[Len(split_root)])]

\* split_at_digit(root, join_mid) for a non-empty root.  mid is None
\* (kind "none"), one string (kind "str") or a list of strings (kind "list").
split_at_digit(root, join_mid) ==
    LET split_root == split_loop(root, 1, char_isdigit(root[1]), <<<<root[1]>>>>)
        midsection == SubSeq(split_root, 2, Len(split_root) - 1)
    IN  [head |-> split_root[1],
         mid  |-> IF Len(split_root) < 3 THEN [kind |-> "none", val |-> <<>>]
                  ELSE IF Len(midsection) = 1 THEN [kind |-> "str", val |-> midsection]
                  ELSE IF join_mid THEN [kind |-> "str", val |-> <<str_join(midsection)>>]
                  ELSE [kind |-> "list", val |-> midsection],
         tail |-> IF Len(split_root) < 2 THEN None ELSE Some(split_root[Len(split_root)])]

Min3(a, b, c) == Min(a, Min(b, c))

\* A distance that counts only the difference of the lengths.
levenshtein_length_only(s, t) == Max(Len(s), Len(t)) - Min(Len(s), Len(t))

\* levenshtein_distance(s, t): the matrix d, d[j][i] the distance between the
\* first i characters of s and the first j characters of t.
levenshtein_distance(s, t) ==
    LET d[j \in 0..Len(t), i \in 0..Len(s)] ==
            IF j = 0 THEN i
            ELSE IF i = 0 THEN j
            ELSE Min3(d[j, i - 1] + 1,
                      d[j - 1, i] + 1,
                      d[j - 1, i - 1] + (IF s[i] = t[j] THEN 0 ELSE 1))
    IN  d[Len(t), Len(s)]

\* int(num_string) succeeds: Python's int() strips surrounding whitespace and
\* takes an optional sign before the digits.
RECURSIVE lstrip_ws(_)
lstrip_ws(s) == IF Len(s) > 0 /\ s[1] = " " THEN lstrip_ws(Tail(s)) ELSE s

RECURSIVE rstrip_ws(_)
rstrip_ws(s) ==
    IF Len(s) > 0 /\ s[Len(s)] = " " THEN rstrip_ws(SubSeq(s, 1, Len(s) - 1)) ELSE s

int_parses(s) ==
    LET t == rstrip_ws(lstrip_ws(s))
        u == IF Len(t) > 0 /\ t[1] \in {"+", "-"} THEN Tail(t) ELSE t
    IN  str_isdigit(u)

\* A parse_digit_format_specifier that drops the padding.
parse_digit_format_specifier_unpadded(num_string) ==
    [ok |-> int_parses(num_string), val |-> <<"%", "d">>]

\* A parse_digit_format_specifier that takes the width from the digits of
\* the number's value, without its leading zeros.
RECURSIVE lstrip_zeros(_)
lstrip_zeros(s) == IF Len(s) > 1 /\ s[1] = "0" THEN lstrip_zeros(Tail(s)) ELSE s

parse_digit_format_specifier_significant(num_string) ==
    IF ~int_parses(num_string) THEN [ok |-> FALSE, val |-> <<>>]
    ELSE LET padding == Len(lstrip_zeros(num_string))
         IN  [ok  |-> TRUE,
              val |-> IF padding > 1
                      THEN <<"%", "0">> \o to_str(padding) \o <<"d">>
                      ELSE <<"%", "d">>]

\* parse_digit_format_specifier(num_string): [ok, val], ok FALSE a ValueError.
parse_digit_format_specifier(num_string) ==
    IF ~int_parses(num_string) THEN [ok |-> FALSE, val |-> <<>>]
    ELSE LET padding == Len(num_string)
         IN  [ok  |-> TRUE,
              val |-> IF padding > 1
                      THEN <<"%", "0">> \o to_str(padding) \o <<"d">>
                      ELSE <<"%", "d">>]

\* The length of the match of %\d*d at Python index i of s, or 0.
dfs_match_len(s, i) ==
    IF i >= Len(s) \/ s[i + 1] # "%" THEN 0
    ELSE LET stops == {k \in (i + 1)..(Len(s) - 1) : ~char_isdigit(s[k + 1])}
             k == IF stops = {} THEN -1 ELSE CHOOSE x \in stops : \A y \in stops : x <= y
         IN  IF k >= 0 /\ s[k + 1] = "d" THEN k + 1 - i ELSE 0

\* re.findall(r"(%\d*d)", s) from Python index i on.
RECURSIVE dfs_findall(_, _)
dfs_findall(s, i) ==
    IF i >= Len(s) THEN <<>>
    ELSE LET n == dfs_match_len(s, i)
         IN  IF n > 0 THEN <<slice(s, i, i + n)>> \o dfs_findall(s, i + n)
             ELSE dfs_findall(s, i + 1)

has_digit_format_specifier(filename) == Len(dfs_findall(filename, 0)) > 0

\* extract_digit_format_specifiers(filename): n = 0 stands for (None, None),
\* n = 1 for a single index and specifier, n > 1 for the two lists.
extract_digit_format_specifiers(filename) ==
    LET specifiers == dfs_findall(filename, 0)
    IN  [n       |-> Len(specifiers),
         indices |-> [k \in 1..Len(specifiers) |-> str_find(filename, specifiers[k])],
         specs   |-> specifiers]

\* A to_re_pattern that reads the size off the last digit of the specifier
\* alone.
to_re_pattern_last_digit(spec, strict) ==
    IF ~has_digit_format_specifier(spec) THEN [ok |-> FALSE, val |-> <<>>]
    ELSE IF spec # <<"%", "d">>
    THEN LET last2 == spec[Len(spec) - 1]
             size  == IF char_isdigit(last2) THEN digit_value(last2) ELSE 1
         IN  [ok  |-> TRUE,
              val |-> IF strict
                      THEN <<"\\", "d", "{">> \o to_str(size) \o <<"}">>
                      ELSE <<"\\", "d", "{", "1", ",">> \o to_str(size) \o <<"}">>]
    ELSE [ok |-> TRUE, val |-> <<"\\", "d", "+">>]

\* to_re_pattern(spec, strict): [ok, val], ok FALSE an AttributeError.
to_re_pattern(spec, strict) ==
    IF ~has_digit_format_specifier(spec) THEN [ok |-> FALSE, val |-> <<>>]
    ELSE IF spec # <<"%", "d">>
    THEN LET last2 == spec[Len(spec) - 1]
             size1 == IF char_isdigit(last2) THEN digit_value(last2) ELSE 1
             size  == IF Len(spec) > 4 THEN to_int(SubSeq(spec, 3, Len(spec) - 1))
                      ELSE size1
         IN  [ok  |-> TRUE,
              val |-> IF strict
                      THEN <<"\\", "d", "{">> \o to_str(size) \o <<"}">>
                      ELSE <<"\\", "d", "{", "1", ",">> \o to_str(size) \o <<"}">>]
    ELSE [ok |-> TRUE, val |-> <<"\\", "d", "+">>]

\* ----------------------------------------------------------- "%" and re

\* pattern % i with the width of the specifier ignored.
py_format_unpadded(pattern, i) ==
    LET e == extract_digit_format_specifiers(pattern)
    IN  slice(pattern, 0, e.indices[1]) \o to_str(i)
        \o slice_from(pattern, e.indices[1] + Len(e.specs[1]))

\* pattern % i for a pattern with one specifier %d or %0<width>d: the number,
\* zero-padded to the width.
py_format(pattern, i) ==
    LET e    == extract_digit_format_specifiers(pattern)
        spec == e.specs[1]
        w    == IF Len(spec) > 2 THEN to_int(SubSeq(spec, 2, Len(spec) - 1)) ELSE 0
    IN  slice(pattern, 0, e.indices[1]) \o zfill(to_str(i), w)
        \o slice_from(pattern, e.indices[1] + Len(spec))

\* The regular expressions get_regex_filename builds, as atoms: a character
\* class (a literal, "." for any character, \d) repeated min..max times
\* (max = -1: unbounded), with the parenthesised atom captured as group 1, and
\* "$".  A "+" after an atom repeats it.
re_number_end(r, i) ==
    CHOOSE k \in i..Len(r) : ~char_isdigit(r[k + 1]) /\ \A j \in i..(k - 1) : char_isdigit(r[j + 1])

RECURSIVE re_atoms(_, _, _)
re_atoms(r, i, in_group) ==
    IF i >= Len(r) THEN <<>>
    ELSE LET c == r[i + 1]
             nx == IF i + 1 < Len(r) THEN r[i + 2] ELSE ""
         IN  IF c = "^" /\ i = 0 THEN re_atoms(r, i + 1, in_group)
             ELSE IF c = "(" THEN re_atoms(r, i + 1, TRUE)
             ELSE IF c = ")" THEN re_atoms(r, i + 1, FALSE)
             ELSE IF c = "$" /\ i = Len(r) - 1
             THEN <<[cls |-> "end", ch |-> "", min |-> 0, max |-> 0, group |-> FALSE]>>
             ELSE IF c = "\\" /\ nx = "d"
             THEN LET q == IF i + 2 < Len(r) THEN r[i + 3] ELSE ""
                  IN  IF q = "+"
                      THEN <<[cls |-> "digit", ch |-> "", min |-> 1, max |-> -1,
                              group |-> in_group]>> \o re_atoms(r, i + 3, in_group)
                      ELSE IF q = "{"
                      THEN LET e1 == re_number_end(r, i + 3)
                               n1 == to_int(slice(r, i + 3, e1))
                               e2 == IF r[e1 + 1] = "," THEN re_number_end(r, e1 + 1) ELSE e1
                               n2 == IF r[e1 + 1] = "," THEN to_int(slice(r, e1 + 1, e2)) ELSE n1
                           IN  <<[cls |-> "digit", ch |-> "", min |-> n1, max |-> n2,
                                  group |-> in_group]>> \o re_atoms(r, e2 + 1, in_group)
                      ELSE <<[cls |-> "digit", ch |-> "", min |-> 1, max |-> 1,
                              group |-> in_group]>> \o re_atoms(r, i + 2, in_group)
             ELSE LET cls == IF c = "." THEN "any" ELSE "lit"
                  IN  IF nx = "+"
                      THEN <<[cls |-> cls, ch |-> c, min |-> 1, max |-> -1,
                              group |-> in_group]>> \o re_atoms(r, i + 2, in_group)
                      ELSE <<[cls |-> cls, ch |-> c, min |-> 1, max |-> 1,
                              group |-> in_group]>> \o re_atoms(r, i + 1, in_group)

re_accepts(a, c) ==
    \/ a.cls = "any"
    \/ a.cls = "lit" /\ a.ch = c
    \/ a.cls = "digit" /\ char_isdigit(c)

\* The number of characters of s from Python index pos on that atom a can take.
re_avail(a, s, pos) ==
    LET lim  == IF a.max < 0 THEN Len(s) - pos ELSE Min(a.max, Len(s) - pos)
        runs == {n \in 0..lim : \A j \in 1..n : re_accepts(a, s[pos + j])}
    IN  CHOOSE n \in runs : \A m \in runs : m <= n

\* The backtracking search of re.match: each atom takes the most characters
\* that let the rest match.  [ok, g]: whether it matches and group 1.
RECURSIVE re_run(_, _, _, _)
RECURSIVE re_try(_, _, _, _, _)
re_run(atoms, k, s, pos) ==
    IF k > Len(atoms) THEN [ok |-> TRUE, g |-> <<>>]
    ELSE IF atoms[k].cls = "end" THEN [ok |-> pos = Len(s), g |-> <<>>]
    ELSE re_try(atoms, k, s, pos, re_avail(atoms[k], s, pos))

re_try(atoms, k, s, pos, n) ==
    IF n < atoms[k].min THEN [ok |-> FALSE, g |-> <<>>]
    ELSE LET r == re_run(atoms, k + 1, s, pos + n)
         IN  IF r.ok
             THEN [ok |-> TRUE,
                   g  |-> IF atoms[k].group THEN slice(s, pos, pos + n) ELSE r.g]
             ELSE re_try(atoms, k, s, pos, n - 1)

\* re.match(pattern, s)
re_match(pattern, s) == re_run(re_atoms(pattern, 0, FALSE), 1, s, 0)

\* -------------------------------------------------------- image_sequence.py

\* ImageSequence._get_body: head, midsection and tail in a flat list.
get_body(head, mid, tail) ==
    <<head>> \o (IF mid.kind = "none" THEN <<>> ELSE mid.val)
             \o (IF tail.isNone THEN <<>> ELSE <<tail.val>>)

\* 10 ** (len(str(fcount)) - 1)
RECURSIVE pow10(_)
pow10(n) == IF n <= 0 THEN 1 ELSE 10 * pow10(n - 1)

RECURSIVE seq_sum(_)
seq_sum(q) == IF Len(q) = 0 THEN 0 ELSE Head(q) + seq_sum(Tail(q))

\* The total Levenshtein distance of body[i] (1-based here), which starts at
\* Python index si of the root, to the roots of the checked files.
total_dist(f, basedir, files, filename, ext, body, i, si, strict) ==
    LET fcount    == Len(files)
        power     == pow10(Len(to_str(fcount)) - 1)
        max_count == IF power > 10 THEN power ELSE fcount
        checked   == IF strict THEN files ELSE slice(files, 0, max_count)
        ln        == Len(body[i])
        dist(n)   == IF is_file(f, basedir, n, Some({str_upper(strip_dots(ext))})).ok
                        /\ n # filename
                     THEN levenshtein_distance(slice(splitext(n).root, si, si + ln), body[i])
                     ELSE 0
    IN  seq_sum([k \in 1..Len(checked) |-> dist(checked[k])])

\* ImageSequence._predict_sequence(body, strict): [ok, val], val the (1-based)
\* indices of the predicted body components, ok FALSE the RuntimeError.
predict_sequence(f, basedir, files, filename, ext, body, strict) ==
    LET si(i)     == Len(str_join(SubSeq(body, 1, i - 1)))
        predicted == SelectSeq([i \in 1..Len(body) |-> i],
                         LAMBDA i : total_dist(f, basedir, files, filename, ext,
                                               body, i, si(i), strict) > 0
                                    /\ str_isdigit(body[i]))
    IN  IF Len(predicted) < 1 \/ Len(predicted) > Len(body)
        THEN [ok |-> FALSE, val |-> <<>>]
        ELSE [ok |-> TRUE, val |-> predicted]

\* The replacement loop of _parse_filename_pattern from the n-th predicted
\* index on.
RECURSIVE parse_loop(_, _, _, _, _)
parse_loop(body, bsi, n, parsed_root, offset) ==
    IF n > Len(bsi) THEN parsed_root
    ELSE LET i          == bsi[n]
             sequence   == body[i]
             parsed_seq == parse_digit_format_specifier(sequence).val
             ri         == Len(str_join(SubSeq(body, 1, i - 1))) - offset
         IN  parse_loop(body, bsi, n + 1,
                        slice(parsed_root, 0, ri) \o parsed_seq
                            \o slice_from(parsed_root, ri + Len(body[i])),
                        offset + Len(sequence) - Len(parsed_seq))

\* A call of _parse_filename_pattern that is not strict.
parse_lenient == FALSE

\* The strict argument of the call of _parse_filename_pattern in __init__.
parse_strict == TRUE

\* ImageSequence._parse_filename_pattern(strict): [ok, dfs, num], ok FALSE the
\* RuntimeError of either the prediction or the strict mode.
parse_filename_pattern(f, basedir, files, filename, root, ext, body, strict) ==
    LET bsi == predict_sequence(f, basedir, files, filename, ext, body, FALSE)
    IN  IF ~bsi.ok THEN [ok |-> FALSE, dfs |-> <<>>, num |-> -1]
        ELSE IF Len(bsi.val) > 1 /\ strict THEN [ok |-> FALSE, dfs |-> <<>>, num |-> -1]
        ELSE [ok  |-> TRUE,
              dfs |-> parse_loop(body, bsi.val, 1, root, 0) \o ext,
              num |-> to_int(body[bsi.val[Len(bsi.val)]])]

\* A downward loop that stops at the first file it finds.
RECURSIVE start_loop_first(_, _, _, _, _)
start_loop_first(f, basedir, dfs_filename, i, other_num) ==
    IF i < 0 THEN other_num
    ELSE IF is_file(f, basedir, py_format(dfs_filename, i), None).ok THEN i
    ELSE start_loop_first(f, basedir, dfs_filename, i - 1, other_num)

\* The downward loop of get_start_number from i on.
RECURSIVE start_loop(_, _, _, _, _)
start_loop(f, basedir, dfs_filename, i, other_num) ==
    IF i < 0 THEN other_num
    ELSE start_loop(f, basedir, dfs_filename, i - 1,
                    IF is_file(f, basedir, py_format(dfs_filename, i), None).ok
                    THEN i ELSE other_num)

\* A get_start_number that returns the number it found below the sample's,
\* without falling back to the sample's own.
get_start_number_found_only(f, basedir, dfs_filename, start_num) ==
    [ok  |-> TRUE,
     val |-> IF start_num # 0
             THEN start_loop(f, basedir, dfs_filename, start_num - 1, -1) ELSE -1]

\* ImageSequence.get_start_number(): [ok, val]; ok FALSE is the TypeError of
\* "%" on a pattern that does not hold exactly one specifier.
get_start_number(f, basedir, dfs_filename, start_num) ==
    IF start_num > 0 /\ extract_digit_format_specifiers(dfs_filename).n # 1
    THEN [ok |-> FALSE, val |-> -1]
    ELSE LET other_num == IF start_num # 0
                          THEN start_loop(f, basedir, dfs_filename, start_num - 1, -1)
                          ELSE -1
         IN  [ok |-> TRUE, val |-> IF other_num < 0 THEN start_num ELSE other_num]

\* A single-image test that never holds for a directory with the sample in it.
single_image_never(fcount) == fcount < 1

\* The test of __init__ for a single image.
single_image(fcount) == fcount < 2

NotConstructed ==
    [status |-> "none", basedir |-> "", filename |-> <<>>, root |-> <<>>, ext |-> <<>>,
     files |-> <<>>, fcount |-> 0, messages |-> <<>>, dfs_filename |-> <<>>,
     sample_num |-> -1, start_num |-> -1]

\* ImageSequence.__init__(path, supp_formats), path = basedir/filename.
\* status is "ok" or the exception raised; sample_num is the number that
\* _parse_filename_pattern returns, which __init__ holds in start_num until
\* get_start_number replaces it.
ImageSequence(f, basedir, filename, supp_formats) ==
    LET test   == is_file(f, basedir, filename, supp_formats)
        sp     == splitext(filename)
        sd     == split_at_digit(sp.root, FALSE)
        files  == fetch_dir(f, basedir, Some({str_upper(strip_dots(sp.ext))}))
        base   == [NotConstructed EXCEPT !.basedir = basedir, !.filename = filename]
        loaded == [base EXCEPT !.root = sp.root, !.ext = sp.ext,
                               !.files = files, !.fcount = Len(files)]
        parsed == parse_filename_pattern(f, basedir, files, filename, sp.root, sp.ext,
                                         get_body(sd.head, sd.mid, sd.tail), parse_strict)
        start  == get_start_number(f, basedir, parsed.dfs, parsed.num)
    IN  IF ~test.ok THEN [base EXCEPT !.status = "IOError"]
        ELSE IF \E k \in 1..Len(filename) : filename[k] = "%"
        THEN [base EXCEPT !.status = "ValueError"]
        ELSE IF single_image(Len(files))
        THEN [loaded EXCEPT !.status = "ok", !.dfs_filename = filename,
                            !.start_num = -1,
                            !.messages = <<"Unable to find image sequence files">>]
        ELSE IF ~parsed.ok THEN [loaded EXCEPT !.status = "RuntimeError"]
        ELSE IF ~start.ok
        THEN [loaded EXCEPT !.status = "TypeError", !.dfs_filename = parsed.dfs,
                            !.sample_num = parsed.num, !.start_num = parsed.num]
        ELSE [loaded EXCEPT !.status = "ok", !.dfs_filename = parsed.dfs,
                            !.sample_num = parsed.num, !.start_num = start.val]

\* The upper end (exclusive) of the range detect_gaps checks.
gaps_stop(self) == Len(self.files)

\* ImageSequence.detect_gaps(): None, or the list of the missing filenames.
detect_gaps(self) ==
    IF self.start_num < 0 THEN None
    ELSE LET n       == Max(gaps_stop(self) - self.start_num, 0)
             fname   == [k \in 1..n |-> py_format(self.dfs_filename, self.start_num + k - 1)]
             missing == SelectSeq(fname,
                            LAMBDA x : \A k \in 1..Len(self.files) : self.files[k] # x)
         IN  IF Len(missing) > 0 THEN Some(missing) ELSE None

\* ImageSequence.get_regex_filename(): [ok, val], ok FALSE the ValueError for
\* more than one specifier.
get_regex_filename(self) ==
    LET e == extract_digit_format_specifiers(self.dfs_filename)
    IN  IF e.n = 0 \/ self.start_num < 0 THEN [ok |-> TRUE, val |-> self.dfs_filename]
        ELSE IF e.n > 1 THEN [ok |-> FALSE, val |-> <<>>]
        ELSE LET dfs           == e.specs[1]
                 group_pattern == <<"(">> \o to_re_pattern(dfs, TRUE).val \o <<")">>
                 re_filename   == <<"^">> \o str_replace(self.dfs_filename, dfs, group_pattern)
                                  \o <<"$">>
             IN  [ok |-> TRUE, val |-> str_replace(re_filename, <<"%", "%">>, <<"%">>)]

\* A sort of the filenames as strings.
sorted_by_name(S, re_fname) == sorted_strs(S)

\* sorted(zip(seq_nums, files)): by number, then by filename.
RECURSIVE sorted_by_num(_, _)
sorted_by_num(S, re_fname) ==
    IF S = {} THEN <<>>
    ELSE LET num(x) == to_int(re_match(re_fname, x).g)
             m == CHOOSE x \in S : \A y \in S \ {x} :
                      num(x) < num(y) \/ (num(x) = num(y) /\ str_less(x, y))
         IN  <<m>> \o sorted_by_num(S \ {m}, re_fname)

\* ImageSequence.get_sequence_files(sort_files=True): the files of the base
\* directory, as it is now, that match the regular expression filename.
get_sequence_files(f, self) ==
    LET re_fname == get_regex_filename(self).val
        files    == {n \in listdir(f, self.basedir) :
                        path_isfile(f, self.basedir, n) /\ re_match(re_fname, n).ok}
    IN  sorted_by_num(files, re_fname)

\* os.listdir gives the names in an order of the platform's choosing: the
\* orders in which a set of names can be listed.
Listings(S) ==
    {q \in [1..Cardinality(S) -> S] : \A x \in S : \E k \in DOMAIN q : q[k] = x}

\* A sort by the number alone that keeps files of equal number in the order of
\* the listing.
RECURSIVE sorted_stable(_, _)
sorted_stable(files, re_fname) ==
    IF Len(files) = 0 THEN <<>>
    ELSE LET num(x) == to_int(re_match(re_fname, x).g)
             rest   == sorted_stable(SubSeq(files, 1, Len(files) - 1), re_fname)
             k      == Cardinality({i \in 1..Len(rest) :
                                      num(rest[i]) <= num(files[Len(files)])})
         IN  SubSeq(rest, 1, k) \o <<files[Len(files)]>> \o SubSeq(rest, k + 1, Len(rest))

\* sorted(zip(seq_nums, files)) for the matched files in the order of the
\* listing: the pairs are compared, so the filename decides between equal
\* numbers.
sorted_zip(files, re_fname) ==
    sorted_by_num({files[k] : k \in 1..Len(files)}, re_fname)

\* ImageSequence.get_sequence_files(sort_files=True) when os.listdir gives the
\* names in the order of listing.
get_sequence_files_listed(f, self, listing) ==
    LET re_fname == get_regex_filename(self).val
        files    == SelectSeq(listing,
                        LAMBDA n : path_isfile(f, self.basedir, n)
                                   /\ re_match(re_fname, n).ok)
    IN  sorted_zip(files, re_fname)

\* ---------------------------------------------------------------- config.py

IMG_FORMATS == {<<"B", "M", "P">>, <<"G", "I", "F">>, <<"J", "P", "G">>, <<"J", "P", "E", "G">>,
                <<"P", "N", "G">>, <<"T", "I", "F">>, <<"T", "I", "F", "F">>, <<"T", "G", "A">>}

VID_FORMATS == {<<"A", "V", "I">>, <<"M", "K", "V">>, <<"M", "O", "V">>, <<"M", "P", "4">>,
                <<"M", "P", "G">>, <<"M", "P", "E", "G">>, <<"W", "E", "B", "M">>, <<"W", "M", "V">>}

SPECIAL_CHARS == {".", ",", "/", "\\", "+", "-", "_", "|", ">", "<", "*", "%"}

\* The formats the Input/Output component passes to ImageSequence.
SUPP_IM_FORMATS == IMG_FORMATS \ {<<"G", "I", "F">>}

\* ------------------------------------------- utils.py: the rename helpers

\* A directory without entries.
NoEntries == [n \in {} |-> [kind |-> "file", data |-> <<>>]]

\* A dict, and d[k] = v.
EmptyDict == [k \in {} |-> <<>>]

dict_set(d, k, v) == [x \in DOMAIN d \cup {k} |-> IF x = k THEN v ELSE d[x]]

\* The length of the match of ^[spec_chars]+ at the head of s.
RECURSIVE chars_at_head(_, _)
chars_at_head(s, spec_chars) ==
    IF Len(s) > 0 /\ s[1] \in spec_chars THEN 1 + chars_at_head(Tail(s), spec_chars)
    ELSE 0

\* The length of the match of [spec_chars]+$ at the tail of s.
RECURSIVE chars_at_tail(_, _)
chars_at_tail(s, spec_chars) ==
    IF Len(s) > 0 /\ s[Len(s)] \in spec_chars
    THEN 1 + chars_at_tail(slice(s, 0, Len(s) - 1), spec_chars)
    ELSE 0

\* Lines 635-685 of strip_digit_format_specifier, the specifier between the
\* head h and the tail t of the root; nh and nt are the lengths of the
\* special characters at the end of h and at the start of t.
strip_between(h, t, nh, nt) ==
    IF nh > 0 /\ nt > 0
    THEN IF Len(h) = nh /\ Len(t) = nt
         THEN [head |-> <<>>, tail |-> <<>>,
               culled |-> dict_set(dict_set(EmptyDict, 0, h), Len(h), t)]
         ELSE IF Len(h) # nh /\ Len(t) # nt
         THEN [head |-> h, tail |-> slice_from(t, nt),
               culled |-> dict_set(EmptyDict, Len(h), slice(t, 0, nt))]
         ELSE IF Len(h) = nh
         THEN [head |-> <<>>, tail |-> t, culled |-> dict_set(EmptyDict, 0, h)]
         ELSE [head |-> h, tail |-> <<>>, culled |-> dict_set(EmptyDict, Len(h), t)]
    ELSE IF nh > 0 /\ Len(h) = nh
    THEN [head |-> <<>>, tail |-> t, culled |-> dict_set(EmptyDict, 0, h)]
    ELSE IF nt > 0 /\ Len(t) = nt
    THEN [head |-> h, tail |-> <<>>, culled |-> dict_set(EmptyDict, Len(h), t)]
    ELSE [head |-> h, tail |-> t, culled |-> EmptyDict]

\* Lines 618-685: a leading, a trailing and an in-between specifier.
strip_around(h, t, nh, nt) ==
    IF Len(h) = 0
    THEN [head |-> <<>>, tail |-> slice_from(t, nt),
          culled |-> IF nt > 0 THEN dict_set(EmptyDict, 0, slice(t, 0, nt)) ELSE EmptyDict]
    ELSE IF Len(t) = 0
    THEN [head |-> slice(h, 0, Len(h) - nh), tail |-> <<>>,
          culled |-> IF nh > 0
                     THEN dict_set(EmptyDict, Len(h) - nh, slice_from(h, Len(h) - nh))
                     ELSE EmptyDict]
    ELSE strip_between(h, t, nh, nt)

\* Lines 687-692: the input root without the specifier if nothing is left.
strip_result(root, ext, dfs, out) ==
    IF Len(out.head) = 0 /\ Len(out.tail) = 0
    THEN [val |-> str_replace(root, dfs, <<>>), culled |-> EmptyDict]
    ELSE [val |-> out.head \o out.tail \o ext, culled |-> out.culled]

\* Lines 609-692 for the root split at the specifier dfs, which is at idx.
strip_split(root, ext, idx, dfs, spec_chars) ==
    strip_result(root, ext, dfs,
        strip_around(slice(root, 0, idx), slice_from(root, idx + Len(dfs)),
                     chars_at_tail(slice(root, 0, idx), spec_chars),
                     chars_at_head(slice_from(root, idx + Len(dfs)), spec_chars)))

\* strip_digit_format_specifier(filename, has_ext, spec_chars) for a filename
\* with at most one specifier: [val, culled].
strip_digit_format_specifier(filename, has_ext, spec_chars) ==
    LET root == IF has_ext THEN splitext(filename).root ELSE filename
        ext  == IF has_ext THEN splitext(filename).ext ELSE <<>>
        e    == extract_digit_format_specifiers(root)
    IN  IF ~has_digit_format_specifier(root) THEN [val |-> filename, culled |-> EmptyDict]
        ELSE IF spec_chars = {}
        THEN [val |-> str_replace(root, e.specs[1], <<>>) \o ext, culled |-> EmptyDict]
        ELSE strip_split(root, ext, e.indices[1], e.specs[1], spec_chars)

\* utils.compare(dir_path1, dir_path2), not strict, for two directories that
\* exist: equal numbers of entries, a common name, and no common name that is
\* a file in one and a directory in the other (filecmp.dircmp).
compare(f, dir_path1, dir_path2) ==
    IF Cardinality(listdir(f, dir_path1)) # Cardinality(listdir(f, dir_path2)) THEN FALSE
    ELSE LET common == listdir(f, dir_path1) \cap listdir(f, dir_path2)
             common_funny == {n \in common : f[dir_path1][n].kind # f[dir_path2][n].kind}
         IN  common # {} /\ common_funny = {}

\* The directory d of f with the entry n removed, and with the entry n set.
without(f, d, n) == [f EXCEPT ![d] = [x \in DOMAIN f[d] \ {n} |-> f[d][x]]]

with_entry(f, d, n, e) ==
    [f EXCEPT ![d] = [x \in DOMAIN f[d] \cup {n} |-> IF x = n THEN e ELSE f[d][x]]]

\* shutil.copy(d1/n1, d2/n2) of a regular file: a file at the destination is
\* replaced.
copy(f, d1, n1, d2, n2) == with_entry(f, d2, n2, f[d1][n1])

\* A move that leaves the source.
move_keeps_source(f, d1, n1, d2, n2) == copy(f, d1, n1, d2, n2)

\* shutil.move(d1/n1, d2/n2) of a regular file: a file at the destination is
\* replaced.
move(f, d1, n1, d2, n2) == with_entry(without(f, d1, n1), d2, n2, f[d1][n1])

\* ------------------------------------------------------- input_output.py

SUPP_OUT_FORMATS == IMG_FORMATS \cup VID_FORMATS

\* InputOutput.__init__(input_path, output_root, output_dir, im) for
\* input_path = input_dir/input_fname and an ImageSequence im; output_root
\* and output_dir are None or a value.
InputOutput(input_dir, input_fname, output_root, output_dir, self_im) ==
    LET sp       == splitext(output_root.val)
        given    == IF str_upper(strip_dots(sp.ext)) \in SUPP_OUT_FORMATS
                    THEN sp.root ELSE output_root.val
        sd       == strip_digit_format_specifier(splitext(self_im.dfs_filename).root,
                                                 FALSE, SPECIAL_CHARS)
        dots     == chars_at_head(sd.val, {"."})
        is_seq   == self_im.start_num > -1
        stripped == IF is_seq THEN lstrip_dots(sd.val) ELSE splitext(input_fname).root
        culled   == IF ~is_seq THEN EmptyDict
                    ELSE IF dots > 0 THEN dict_set(sd.culled, 0, slice(sd.val, 0, dots))
                    ELSE sd.culled
    IN  [input_dir             |-> input_dir,
         input_fname           |-> input_fname,
         output_root           |-> IF output_root.isNone THEN stripped ELSE given,
         has_specific_out_root |-> ~output_root.isNone,
         culled_spec_chars     |-> IF output_root.isNone THEN culled ELSE EmptyDict,
         output_dir            |-> IF output_dir.isNone THEN input_dir ELSE output_dir.val]

\* The name of the temporary directory: "tmp" and the time as %y%m%d%H%M%S.
TmpName == <<"t", "m", "p", "2", "1", "0", "3", "0", "8", "1", "2", "0", "0", "0", "0">>

\* A temporary directory that is the input directory itself.
tmp_dir_in_place(self_io) == self_io.input_dir

\* The temporary directory of rename_sequence_files, line 119.
tmp_dir(self_io) == "tmp"

\* An os.mkdir that does not fail on a directory that exists.
tmp_exists_ignored(f) == FALSE

tmp_exists(f) == path_exists(f, "src", TmpName)

\* A delete that leaves the directory.
delete_tmp_skipped(f) == f

\* os.mkdir(tmp_dir) done, and utils.delete(tmp_dir) done (shutil.rmtree).
mkdir_tmp(f) == [with_entry(f, "src", TmpName, [kind |-> "dir", data |-> <<>>])
                    EXCEPT !.tmp = NoEntries]

delete_tmp(f) == [without(f, "src", TmpName) EXCEPT !.tmp = NoEntries]

\* A new root whose counter is written without padding.
new_root_unpadded(self_io, self_im, f, re_fname, idx, count, width) ==
    LET g             == re_match(re_fname, f).g
        root          == splitext(f).root
        stripped_root == str_replace(root, g, <<>>)
        out_root      == str_replace(self_io.output_root, <<"%", "%">>, <<"%">>)
    IN  IF stripped_root # out_root
        THEN IF idx < Len(self_im.dfs_filename) \div 2
             THEN to_str(count) \o out_root
             ELSE out_root \o to_str(count)
        ELSE str_replace(root, g, to_str(count))

\* The root of the renamed file f for the count, lines 142-156.
new_root(self_io, self_im, f, re_fname, idx, count, width) ==
    LET g             == re_match(re_fname, f).g
        root          == splitext(f).root
        stripped_root == str_replace(root, g, <<>>)
        out_root      == str_replace(self_io.output_root, <<"%", "%">>, <<"%">>)
        number        == zfill(to_str(count), width)
    IN  IF stripped_root # out_root
        THEN IF idx < Len(self_im.dfs_filename) \div 2
             THEN number \o out_root
             ELSE out_root \o number
        ELSE str_replace(root, g, number)

\* ------------------------------------------------------------ the directory

\* A directory of regular files, each holding its own data.
files_of(S) == [n \in S |-> [kind |-> "file", data |-> n]]

PNG == <<".", "p", "n", "g">>

numbered(pre, c, width, suf, ext) == pre \o zfill(to_str(c), width) \o suf \o ext

\* The filenames the directories of the inference runs are drawn from:
\* a zero-padded sequence, an unpadded one, names with a second number, a
\* leading and an interior counter, a name without a number, and names of
\* another extension.
InferNames ==
    {numbered(<<"a">>, c, 2, <<>>, PNG) : c \in 0..MaxCounter}
    \cup {numbered(<<"a">>, c, 1, <<>>, PNG) : c \in {1, 2, 10}}
    \cup {numbered(<<"1", "b">>, c, 1, <<>>, PNG) : c \in 1..2}
    \cup {numbered(<<"2", "b">>, 2, 1, <<>>, PNG)}
    \cup {numbered(<<>>, c, 2, <<"x">>, PNG) : c \in 1..2}
    \cup {numbered(<<"a">>, c, 2, <<"x">>, PNG) : c \in 1..2}
    \cup {<<"b">> \o PNG,
          <<"a", "0", "1", ".", "P", "N", "G">>,
          <<"a", "0", "2", ".", "t", "x", "t">>}

\* A path that names nothing.
MissingName == <<"n", "o">> \o PNG

InferDirs == {S \in SUBSET InferNames : Cardinality(S) \in 1..MaxFiles}

\* An entry of the directory that is itself a directory.
DirName == <<"d">> \o PNG

\* A filename with a percent sign.
PercentName == <<"a", "%", "1">> \o PNG

\* The entries of a directory in which DirName is a directory and every other
\* name a regular file.
entries_of(S) ==
    [n \in S |-> [kind |-> IF n = DirName THEN "dir" ELSE "file", data |-> n]]

\* The directories that hold a subdirectory or a filename with a percent sign,
\* next to files of a sequence.
OddDirs ==
    {S \in SUBSET ({DirName, PercentName}
                      \cup {numbered(<<"a">>, c, 2, <<>>, PNG) : c \in 1..2}) :
        Cardinality(S) \in 1..MaxFiles /\ S \cap {DirName, PercentName} # {}}

NoIO == [output_root |-> <<>>, output_dir |-> "", has_specific_out_root |-> FALSE,
         culled_spec_chars |-> <<>>, input_fname |-> <<>>, input_dir |-> ""]

NoResult == [op |-> "none", gaps |-> None, start |-> -1, files |-> <<>>, again |-> <<>>]

\* rename_sequence_files(start_num) is taken in steps, one for each call that
\* changes the directories: rn.pc is where the call stands, rn.error the
\* exception that ended it, rn.step the step that raised it, rn.moved the
\* result of compare for each staged file, rn.before the directories at the
\* call.
NoRename ==
    [pc |-> "idle", start_num |-> 0, files |-> <<>>, i |-> 0, count |-> 0, width |-> 0,
     tmp_filepaths |-> <<>>, moved |-> <<>>, error |-> "", step |-> "",
     before |-> <<>>]

\* A raise that turns every exception into a RuntimeError.
raised_as_runtime_error(r, error, step) ==
    [r EXCEPT !.pc = "failed", !.error = "RuntimeError", !.step = step]

raised(r, error, step) == [r EXCEPT !.pc = "failed", !.error = error, !.step = step]

\* The directories of a sequence with a version number after the counter:
\* counters 9 and 10 unpadded, and 09 padded.
VersionDirs ==
    {S \in SUBSET ({numbered(<<"f">>, c, 1, <<"v", "2">>, PNG) : c \in 9..10}
                      \cup {numbered(<<"f">>, 9, 2, <<"v", "2">>, PNG)}) :
        Cardinality(S) \in 2..MaxFiles}

\* ------------------------------------------------- inference: the actions

InitInfer ==
    /\ fs \in {[src |-> files_of(S), dst |-> NoEntries, tmp |-> NoEntries] :
                  S \in InferDirs \cup VersionDirs}
             \cup {[src |-> entries_of(S), dst |-> NoEntries, tmp |-> NoEntries] :
                      S \in OddDirs}
    /\ im = NotConstructed
    /\ io = NoIO
    /\ rn = NoRename
    /\ res = NoResult

\* im = ImageSequence(path, SUPP_IM_FORMATS) for a path in the directory, or
\* one that does not exist.
Infer(n) ==
    /\ im.status = "none"
    /\ im' = ImageSequence(fs, "src", n, Some(SUPP_IM_FORMATS))
    /\ res' = [NoResult EXCEPT !.op = "infer"]
    /\ UNCHANGED <<fs, io, rn>>

DetectGaps ==
    /\ im.status = "ok"
    /\ res' = [NoResult EXCEPT !.op = "detect_gaps", !.gaps = detect_gaps(im)]
    /\ UNCHANGED <<fs, im, io, rn>>

GetStartNumber ==
    /\ im.status = "ok"
    /\ res' = [NoResult EXCEPT !.op = "get_start_number",
                 !.start = get_start_number(fs, im.basedir, im.dfs_filename,
                                            im.start_num).val]
    /\ UNCHANGED <<fs, im, io, rn>>

GetSequenceFiles ==
    /\ im.status = "ok"
    /\ im.start_num >= 0
    /\ res' = [NoResult EXCEPT !.op = "get_sequence_files",
                 !.files = get_sequence_files(fs, im)]
    /\ UNCHANGED <<fs, im, io, rn>>

\* A second call of get_sequence_files right after the first, with the
\* directory unchanged and listed in any order; res keeps the first result.
GetSequenceFilesAgain ==
    /\ res.op = "get_sequence_files"
    /\ \E listing \in Listings(listdir(fs, im.basedir)) :
          res' = [res EXCEPT !.op = "get_sequence_files_again",
                             !.again = get_sequence_files_listed(fs, im, listing)]
    /\ UNCHANGED <<fs, im, io, rn>>

NextInfer ==
    \/ \E n \in listdir(fs, "src") \cup {MissingName} : Infer(n)
    \/ DetectGaps
    \/ GetStartNumber
    \/ GetSequenceFiles

SpecInfer == InitInfer /\ [][NextInfer]_vars

\* ------------------------------------------------- listing: the actions

\* The directories of the listing runs: unpadded counters of one and two
\* digits, padded counters of the same values, and a file without a number.
ListDirs ==
    {S \in SUBSET ({numbered(<<"a">>, c, 1, <<>>, PNG) : c \in {1, 2, 9, 10}}
                      \cup {numbered(<<"a">>, c, 2, <<>>, PNG) : c \in 1..2}
                      \cup {<<"b">> \o PNG}) :
        Cardinality(S) \in 1..MaxFiles}

InitListing ==
    /\ fs \in {[src |-> files_of(S), dst |-> NoEntries, tmp |-> NoEntries] : S \in ListDirs}
    /\ im = NotConstructed
    /\ io = NoIO
    /\ rn = NoRename
    /\ res = NoResult

NextListing ==
    \/ \E n \in listdir(fs, "src") : Infer(n)
    \/ GetSequenceFiles
    \/ GetSequenceFilesAgain

SpecListing == InitListing /\ [][NextListing]_vars

\* ------------------------------------------------- live directory: the actions

\* The filenames of the runs in which the directory changes after the
\* construction: one zero-padded sequence.
LiveNames == {numbered(<<"a">>, c, 2, <<>>, PNG) : c \in 0..MaxCounter}

InitLive ==
    /\ fs \in {[src |-> files_of(S), dst |-> NoEntries, tmp |-> NoEntries] :
                  S \in {T \in SUBSET LiveNames : Cardinality(T) \in 2..MaxFiles}}
    /\ im = NotConstructed
    /\ io = NoIO
    /\ rn = NoRename
    /\ res = NoResult

\* Another program writes a file into the directory after the construction.
AddFile(n) ==
    /\ im.status = "ok"
    /\ n \notin listdir(fs, "src")
    /\ fs' = with_entry(fs, "src", n, [kind |-> "file", data |-> n])
    /\ UNCHANGED <<im, io, rn, res>>

\* Another program deletes a file of the directory after the construction.
DeleteFile(n) ==
    /\ im.status = "ok"
    /\ n \in listdir(fs, "src")
    /\ fs' = without(fs, "src", n)
    /\ UNCHANGED <<im, io, rn, res>>

NextLive ==
    \/ \E n \in listdir(fs, "src") : Infer(n)
    \/ \E n \in LiveNames : AddFile(n)
    \/ \E n \in LiveNames : DeleteFile(n)
    \/ DetectGaps
    \/ GetStartNumber
    \/ GetSequenceFiles

SpecLive == InitLive /\ [][NextLive]_vars

\* ------------------------------------------------- rename: the actions

\* Lines 110-130: the temporary directory is made and the sequence files are
\* listed; ok FALSE is an OSError of os.mkdir.
RenameBegin(start_num, ok) ==
    /\ rn.pc = "idle"
    /\ io.input_dir # ""
    /\ im.start_num >= 0
    /\ IF ~ok \/ tmp_exists(fs)
       THEN /\ rn' = raised([rn EXCEPT !.start_num = start_num, !.before = fs],
                            "OSError", "mkdir")
            /\ fs' = fs
       ELSE /\ fs' = mkdir_tmp(fs)
            /\ rn' = [rn EXCEPT !.pc = "staging", !.start_num = start_num,
                        !.files = get_sequence_files(fs', im), !.i = 1,
                        !.count = start_num,
                        !.width = Len(to_str(Len(get_sequence_files(fs', im)) + start_num)),
                        !.before = fs]
    /\ UNCHANGED <<im, io, res>>

\* Lines 134-170 for one file of the list; ok FALSE is an OSError of
\* shutil.move or shutil.copy.
StageFile(ok) ==
    /\ rn.pc = "staging"
    /\ rn.i <= Len(rn.files)
    /\ LET f        == rn.files[rn.i]
           re_fname == get_regex_filename(im).val
           idx      == extract_digit_format_specifiers(im.dfs_filename).indices[1]
           name     == new_root(io, im, f, re_fname, idx, rn.count, rn.width)
                       \o splitext(f).ext
           same     == compare(fs, io.input_dir, io.output_dir)
       IN  IF ~path_isfile(fs, io.input_dir, f) \/ ~re_match(re_fname, f).ok
           THEN /\ ok
                /\ rn' = [rn EXCEPT !.i = rn.i + 1]
                /\ fs' = fs
           ELSE IF ~ok
           THEN /\ rn' = raised(rn, "OSError", "stage")
                /\ fs' = fs
           ELSE /\ fs' = IF same THEN move(fs, io.input_dir, f, tmp_dir(io), name)
                         ELSE copy(fs, io.input_dir, f, tmp_dir(io), name)
                /\ rn' = [rn EXCEPT !.i = rn.i + 1, !.count = rn.count + 1,
                            !.tmp_filepaths = Append(rn.tmp_filepaths, name),
                            !.moved = Append(rn.moved, same)]
    /\ UNCHANGED <<im, io, res>>

\* Lines 172-183 after the last file of the list: without a staged file the
\* temporary directory is deleted and a RuntimeError raised; ok FALSE is an
\* OSError of shutil.rmtree, on which delete raises a str, a TypeError.
StageEnd(ok) ==
    /\ rn.pc = "staging"
    /\ rn.i > Len(rn.files)
    /\ IF rn.count - rn.start_num = 0
       THEN IF ok
            THEN /\ fs' = delete_tmp(fs)
                 /\ rn' = raised(rn, "RuntimeError", "staged")
            ELSE /\ fs' = fs
                 /\ rn' = raised(rn, "TypeError", "staged")
       ELSE /\ ok
            /\ fs' = fs
            /\ rn' = [rn EXCEPT !.pc = "commit", !.i = 1, !.count = 0]
    /\ UNCHANGED <<im, io, res>>

\* Lines 184-191 for one staged file; ok FALSE is an OSError of shutil.move.
CommitFile(ok) ==
    /\ rn.pc = "commit"
    /\ rn.i <= Len(rn.tmp_filepaths)
    /\ LET fname == rn.tmp_filepaths[rn.i]
       IN  IF ~path_isfile(fs, tmp_dir(io), fname)
           THEN /\ ok
                /\ rn' = raised(rn, "IOError", "commit")
                /\ fs' = fs
           ELSE IF ~ok
           THEN /\ rn' = raised(rn, "OSError", "commit")
                /\ fs' = fs
           ELSE /\ fs' = move(fs, tmp_dir(io), fname, io.output_dir, fname)
                /\ rn' = [rn EXCEPT !.i = rn.i + 1, !.count = rn.count + 1]
    /\ UNCHANGED <<im, io, res>>

\* Lines 193-199 after the last staged file; ok FALSE is an OSError of
\* shutil.rmtree.
CommitEnd(ok) ==
    /\ rn.pc = "commit"
    /\ rn.i > Len(rn.tmp_filepaths)
    /\ IF rn.count = 0
       THEN /\ ok
            /\ fs' = fs
            /\ rn' = raised(rn, "RuntimeError", "committed")
       ELSE IF ok
       THEN /\ fs' = delete_tmp(fs)
            /\ rn' = [rn EXCEPT !.pc = "done"]
       ELSE /\ fs' = fs
            /\ rn' = raised(rn, "TypeError", "delete")
    /\ UNCHANGED <<im, io, res>>

\* _rename_file(), which rename_sequence_files calls for a single image; ok
\* FALSE is an OSError of shutil.move or shutil.copy.
RenameFile(ok) ==
    /\ rn.pc = "idle"
    /\ io.input_dir # ""
    /\ im.start_num < 0
    /\ LET out_root == str_replace(io.output_root, <<"%", "%">>, <<"%">>)
           name     == out_root \o splitext(io.input_fname).ext
           same     == compare(fs, io.input_dir, io.output_dir)
           after    == IF same
                       THEN move(fs, io.input_dir, io.input_fname, io.output_dir, name)
                       ELSE copy(fs, io.input_dir, io.input_fname, io.output_dir, name)
       IN  IF ~ok
           THEN /\ rn' = raised([rn EXCEPT !.before = fs], "OSError", "file")
                /\ fs' = fs
           ELSE /\ fs' = after
                /\ rn' = IF is_file(after, io.output_dir, name, None).ok
                         THEN [rn EXCEPT !.pc = "done", !.before = fs,
                                         !.moved = <<same>>, !.tmp_filepaths = <<name>>]
                         ELSE raised([rn EXCEPT !.before = fs], "RuntimeError", "file")
    /\ UNCHANGED <<im, io, res>>

\* The last file of the sequence is deleted from the input directory between
\* the construction of the objects and the call of rename_sequence_files.
RemoveFile ==
    /\ rn.pc = "idle"
    /\ io.input_dir # ""
    /\ im.start_num >= 0
    /\ Len(get_sequence_files(fs, im)) > 0
    /\ fs' = without(fs, "src",
                     get_sequence_files(fs, im)[Len(get_sequence_files(fs, im))])
    /\ UNCHANGED <<im, io, rn, res>>

\* ---------------------------------------------------- rename: the runs

\* The sequences of the input directory: a counter after the root, and a
\* counter set off by a special character.
RenameSequences ==
    {S \in SUBSET {numbered(<<"a">>, c, 1, <<>>, PNG) : c \in 1..MaxCounter} : S # {}}
    \cup {{numbered(<<"a", "_">>, c, 1, <<>>, PNG) : c \in 1..2}}

\* A file of the input directory that belongs to no sequence.
OtherNames == {<<"b">> \o PNG}

RenameDirs ==
    {S \cup X : S \in RenameSequences, X \in SUBSET OtherNames}

\* The files of the output directory, where it is not the input directory:
\* none, or these.
DstFiles == {numbered(<<"a">>, 1, 1, <<>>, PNG), <<"y">>, <<"z">>}

DstDirs == {{}, DstFiles}

\* Files of the output directory hold data of their own.
dst_files_of(S) == [n \in S |-> [kind |-> "file", data |-> <<"d", "s", "t", "/">> \o n]]

\* The output roots of the component: none, or one the user gives.
OutputRoots == {None, Some(<<"x">>)}

\* The start numbers: small ones, and one that widens the counter.
StartNumbers == 0..MaxOffset \cup {WideOffset}

\* The objects as the components construct them: im = ImageSequence(path),
\* io = InputOutput(path, output_root, output_dir, im).
InitRename ==
    /\ fs \in {[src |-> files_of(S), dst |-> dst_files_of(D), tmp |-> NoEntries] :
                  S \in RenameDirs, D \in DstDirs}
    /\ Cardinality(listdir(fs, "src")) <= MaxFiles
    /\ im \in {ImageSequence(fs, "src", n, Some(SUPP_IM_FORMATS)) : n \in listdir(fs, "src")}
    /\ im.status = "ok"
    /\ io \in {InputOutput("src", im.filename, r, o, im) :
                  r \in OutputRoots, o \in {None, Some("dst")}}
    /\ (io.output_dir = "src" => listdir(fs, "dst") = {})
    /\ rn = NoRename
    /\ res = NoResult

NextRename ==
    \/ RemoveFile
    \/ \E k \in StartNumbers, ok \in BOOLEAN : RenameBegin(k, ok)
    \/ \E ok \in BOOLEAN : StageFile(ok)
    \/ \E ok \in BOOLEAN : StageEnd(ok)
    \/ \E ok \in BOOLEAN : CommitFile(ok)
    \/ \E ok \in BOOLEAN : CommitEnd(ok)
    \/ \E ok \in BOOLEAN : RenameFile(ok)

SpecRename == InitRename /\ [][NextRename]_vars

\* ------------------------------------------- two renames: the actions

\* Two calls of rename_sequence_files on the same input directory within one
\* second, so that both derive the temporary directory TmpName: rn is the
\* call that is running, res the call that is waiting.
InitTwo ==
    /\ fs \in {[src |-> files_of(S), dst |-> NoEntries, tmp |-> NoEntries] :
                  S \in {{numbered(<<"a">>, c, 1, <<>>, PNG) : c \in 1..n} : n \in 2..MaxFiles}}
    /\ im = ImageSequence(fs, "src", numbered(<<"a">>, 1, 1, <<>>, PNG), Some(SUPP_IM_FORMATS))
    /\ io \in {InputOutput("src", im.filename, None, o, im) : o \in {None, Some("dst")}}
    /\ rn = NoRename
    /\ res = NoRename

\* The scheduler runs the other call.
Switch ==
    /\ rn # res
    /\ rn' = res
    /\ res' = rn
    /\ UNCHANGED <<fs, im, io>>

NextTwo ==
    \/ Switch
    \/ \E k \in {0, MaxOffset}, ok \in BOOLEAN : RenameBegin(k, ok)
    \/ \E ok \in BOOLEAN : StageFile(ok)
    \/ \E ok \in BOOLEAN : StageEnd(ok)
    \/ \E ok \in BOOLEAN : CommitFile(ok)
    \/ \E ok \in BOOLEAN : CommitEnd(ok)

SpecTwo == InitTwo /\ [][NextTwo]_vars

\* ------------------------------------- special characters: the actions

\* Filenames with a character that is special in a regular expression: a
\* sequence whose root has a "+" before the counter, and names that differ
\* from it in that place or in the place of the "." of the extension.
SpecialNames ==
    {numbered(<<"a", "+">>, c, 1, <<>>, PNG) : c \in 1..2}
    \cup {numbered(<<"a">>, c, 1, <<>>, PNG) : c \in 1..2}
    \cup {<<"a", "a", "1">> \o PNG, <<"a", "1", "x", "p", "n", "g">>}

SpecialDirs == {S \in SUBSET SpecialNames : Cardinality(S) \in 2..MaxFiles}

InitSpecial ==
    /\ fs \in {[src |-> files_of(S), dst |-> NoEntries, tmp |-> NoEntries] : S \in SpecialDirs}
    /\ im = NotConstructed
    /\ io = NoIO
    /\ rn = NoRename
    /\ res = NoResult

NextSpecial ==
    \/ \E n \in listdir(fs, "src") : Infer(n)
    \/ GetStartNumber
    \/ GetSequenceFiles

SpecSpecial == InitSpecial /\ [][NextSpecial]_vars

\* ------------------------------------------------- strip: the actions

\* The characters on either side of the specifier: a letter and two of the
\* special characters.
SideChars == {"a", "_", "."}

RECURSIVE sides_upto(_)
sides_upto(n) ==
    IF n = 0 THEN {<<>>}
    ELSE LET shorter == sides_upto(n - 1)
         IN  shorter \cup {Append(t, ch) : t \in shorter, ch \in SideChars}

\* The specifier of the roots: the one of a counter of three digits.
Specifier3 == <<"%", "0", "3", "d">>

\* The roots handed to strip_digit_format_specifier: a specifier with up to
\* MaxSide characters before it and after it.
StripRoots == {h \o Specifier3 \o t : h \in sides_upto(MaxSide), t \in sides_upto(MaxSide)}

NoStrip == [op |-> "none", arg |-> <<>>, val |-> <<>>, culled |-> EmptyDict]

InitStrip ==
    /\ fs = [src |-> NoEntries, dst |-> NoEntries, tmp |-> NoEntries]
    /\ im = NotConstructed
    /\ io = NoIO
    /\ rn = NoRename
    /\ res \in {[NoStrip EXCEPT !.arg = x] : x \in StripRoots}

\* strip_digit_format_specifier(root, False, SPECIAL_CHARS), as
\* InputOutput.__init__ calls it.
StripDigitFormatSpecifier ==
    /\ res.op = "none"
    /\ LET sd == strip_digit_format_specifier(res.arg, FALSE, SPECIAL_CHARS)
       IN  res' = [res EXCEPT !.op = "strip_digit_format_specifier",
                              !.val = sd.val, !.culled = sd.culled]
    /\ UNCHANGED <<fs, im, io, rn>>

NextStrip == StripDigitFormatSpecifier

SpecStrip == InitStrip /\ [][NextStrip]_vars

\* ------------------------------------------------- utils: the actions

\* The characters of the strings handed to the functions of utils.py: a
\* letter, two digits, a blank and a sign.
InputChars == {"a", "0", "7", " ", "+"}

RECURSIVE strings_upto(_)
strings_upto(n) ==
    IF n = 0 THEN {<<>>}
    ELSE LET shorter == strings_upto(n - 1)
         IN  shorter \cup {Append(t, ch) : t \in shorter, ch \in InputChars}

\* A string of n digits: n - 1 zeros and a 7.
digit_run(n) == [i \in 1..n |-> IF i < n THEN "0" ELSE "7"]

\* The strings of the runs: all of up to MaxLen characters, and the strings of
\* digits of up to MaxWidth.
InputStrings == strings_upto(MaxLen) \cup {digit_run(n) : n \in 1..MaxWidth}

NoCall == [op |-> "none", arg |-> <<>>, body |-> <<>>, spec |-> [ok |-> FALSE, val |-> <<>>],
           strict |-> FALSE, pattern |-> <<>>, error |-> ""]

InitUtils ==
    /\ fs = [src |-> NoEntries, dst |-> NoEntries, tmp |-> NoEntries]
    /\ im = NotConstructed
    /\ io = NoIO
    /\ rn = NoRename
    /\ res \in {[NoCall EXCEPT !.arg = x] : x \in InputStrings}

\* split_at_digit(root) and _get_body on its result, as __init__ and
\* _parse_filename_pattern call them; root[0] of an empty root is an
\* IndexError.
SplitAtDigit ==
    /\ res.op = "none"
    /\ res' = IF Len(res.arg) = 0
              THEN [res EXCEPT !.op = "split_at_digit", !.error = "IndexError"]
              ELSE LET sd == split_at_digit(res.arg, FALSE)
                   IN  [res EXCEPT !.op = "split_at_digit",
                                   !.body = get_body(sd.head, sd.mid, sd.tail)]
    /\ UNCHANGED <<fs, im, io, rn>>

ParseDigitFormatSpecifier ==
    /\ res.op = "none"
    /\ LET parsed == parse_digit_format_specifier(res.arg)
       IN  res' = [res EXCEPT !.op = "parse_digit_format_specifier", !.spec = parsed,
                              !.error = IF parsed.ok THEN "" ELSE "ValueError"]
    /\ UNCHANGED <<fs, im, io, rn>>

\* to_re_pattern(spec, strict) on a specifier that parse_digit_format_specifier
\* returned.
ToRePattern(strict) ==
    /\ res.op = "parse_digit_format_specifier"
    /\ res.spec.ok
    /\ LET p == to_re_pattern(res.spec.val, strict)
       IN  res' = [res EXCEPT !.op = "to_re_pattern", !.strict = strict, !.pattern = p.val,
                              !.error = IF p.ok THEN "" ELSE "AttributeError"]
    /\ UNCHANGED <<fs, im, io, rn>>

NextUtils ==
    \/ SplitAtDigit
    \/ ParseDigitFormatSpecifier
    \/ \E strict \in BOOLEAN : ToRePattern(strict)

SpecUtils == InitUtils /\ [][NextUtils]_vars

\* ------------------------------------------------- inference: properties

Dir == listdir(fs, "src")

ext_key(n) == str_upper(strip_dots(splitext(n).ext))

\* The sample is a regular file of an allowed format without a "%".
ValidSample(n) ==
    /\ path_isfile(fs, "src", n)
    /\ ext_key(n) \in SUPP_IM_FORMATS
    /\ \A k \in 1..Len(n) : n[k] # "%"

\* The files of the sample's extension, compared case-insensitively.
SameExt(n) == {m \in Dir : path_isfile(fs, "src", m) /\ ext_key(m) = ext_key(n)}

\* The counter token of width w: %0<w>d, and %d for a single digit, which is
\* the unpadded counter.
Token(w) == IF w > 1 THEN <<"%", "0">> \o to_str(w) \o <<"d">> ELSE <<"%", "d">>

\* Filename n is pre + (w digits) + suf + ext.
FitsShape(sh, n) ==
    LET r == splitext(n)
        a == Len(sh.pre)
    IN  /\ r.ext = sh.ext
        /\ Len(r.root) = a + sh.w + Len(sh.suf)
        /\ slice(r.root, 0, a) = sh.pre
        /\ str_isdigit(slice(r.root, a, a + sh.w))
        /\ slice_from(r.root, a + sh.w) = sh.suf

CounterOf(sh, n) == to_int(slice(splitext(n).root, Len(sh.pre), Len(sh.pre) + sh.w))

\* The shapes [pre, w, suf, ext] under which the filenames S are exactly one
\* sequence with a w-digit counter whose neighbours are not digits.
Shapes(S) ==
    LET n0 == CHOOSE n \in S : TRUE
        r0 == splitext(n0)
        L  == Len(r0.root)
        all == {[pre |-> slice(r0.root, 0, i), w |-> w,
                 suf |-> slice_from(r0.root, i + w), ext |-> r0.ext] :
                    i \in 0..(L - 1), w \in 1..L}
    IN  {sh \in all :
            /\ Len(sh.pre) + sh.w + Len(sh.suf) = L
            /\ (Len(sh.pre) > 0 => ~char_isdigit(sh.pre[Len(sh.pre)]))
            /\ (Len(sh.suf) > 0 => ~char_isdigit(sh.suf[1]))
            /\ \A n \in S : FitsShape(sh, n)}

SetMin(S) == CHOOSE x \in S : \A y \in S : x <= y

\* C1: in a directory that holds exactly the files (two or more) of one
\* sequence with a W-digit counter, inference on any member returns the
\* pattern prefix + counter token + suffix + extension (the token of width W
\* for W >= 2, the unpadded token for the single digit), the sample's counter
\* as sample number and the smallest counter of the directory as start number.
C1_UniformSequenceInferred ==
    (res.op = "infer" /\ ValidSample(im.filename) /\ Cardinality(Dir) >= 2)
    => \A sh \in Shapes(Dir) :
          /\ im.status = "ok"
          /\ im.dfs_filename = sh.pre \o Token(sh.w) \o sh.suf \o sh.ext
          /\ im.sample_num = CounterOf(sh, im.filename)
          /\ im.start_num = SetMin({CounterOf(sh, n) : n \in Dir})

C1_Witness ==
    /\ res.op = "infer"
    /\ im.status = "ok"
    /\ Cardinality(Dir) = 3
    /\ \E sh \in Shapes(Dir) : sh.w = 2 /\ Len(sh.pre) > 0
    /\ im.start_num < im.sample_num

\* The numbers 0..sample_num whose rendering with the pattern is a file of the
\* base directory.
ExistingNumbers ==
    {i \in 0..im.sample_num : path_isfile(fs, "src", py_format(im.dfs_filename, i))}

IsSequence == im.status = "ok" /\ im.fcount >= 2

\* C2: the start number of a sequence descriptor is the smallest number in
\* 0..sample_number whose rendered filename exists at construction, whatever
\* holes lie between it and the sample; so 0 <= start_number <= sample_number.
C2_StartNumberIsMinimum ==
    (res.op = "infer" /\ IsSequence)
    => /\ ExistingNumbers # {}
       /\ im.start_num = SetMin(ExistingNumbers)
       /\ 0 <= im.start_num
       /\ im.start_num <= im.sample_num

C2_Witness ==
    /\ res.op = "infer"
    /\ IsSequence
    /\ \E i \in (im.start_num + 1)..(im.sample_num - 1) : i \notin ExistingNumbers
    /\ \E i \in (im.start_num + 1)..(im.sample_num - 1) : i \in ExistingNumbers

\* What detect_gaps is to return for start number s and n sibling files: the
\* renderings of s..s+n-1 that are no sibling, in order, or None.
ExpectedGaps ==
    LET s       == im.start_num
        n       == Len(im.files)
        names   == [k \in 1..n |-> py_format(im.dfs_filename, s + k - 1)]
        missing == SelectSeq(names, LAMBDA x : \A k \in 1..n : im.files[k] # x)
    IN  IF Len(missing) = 0 THEN None ELSE Some(missing)

\* C3: detect_gaps checks every number from start_number to
\* start_number + n - 1 (n the number of sibling files) and returns the
\* missing filenames in order, or None, for every start number.
C3_DetectGapsFromStart ==
    (res.op = "detect_gaps" /\ im.start_num >= 0) => res.gaps = ExpectedGaps

\* C9: a sample without another file of its extension is a single image:
\* inference succeeds with start number -1, the filename itself as pattern
\* (no counter token), a diagnostic message, and detect_gaps returns None.
C9_SingleImage ==
    (res.op \in {"infer", "detect_gaps"} /\ ValidSample(im.filename)
        /\ SameExt(im.filename) = {im.filename})
    => /\ im.status = "ok"
       /\ im.start_num = -1
       /\ im.dfs_filename = im.filename
       /\ ~has_digit_format_specifier(im.dfs_filename)
       /\ Len(im.messages) >= 1
       /\ detect_gaps(im) = None
       /\ (res.op = "detect_gaps" => res.gaps = None)

C9_Witness ==
    /\ res.op = "detect_gaps"
    /\ SameExt(im.filename) = {im.filename}
    /\ Cardinality(Dir) >= 2
    /\ \E k \in 1..Len(im.filename) : char_isdigit(im.filename[k])
    /\ res.gaps = None

\* The body segments of the sample's root that are all digits and differ from
\* the roots of the other files: the sequence candidates.
Candidates(n) ==
    LET sp    == splitext(n)
        sd    == split_at_digit(sp.root, FALSE)
        body  == get_body(sd.head, sd.mid, sd.tail)
        files == fetch_dir(fs, "src", Some({ext_key(n)}))
    IN  {i \in 1..Len(body) :
            /\ str_isdigit(body[i])
            /\ total_dist(fs, "src", files, n, sp.ext, body, i,
                          Len(str_join(SubSeq(body, 1, i - 1))), FALSE) > 0}

\* C10: with two or more files of the sample's extension, inference returns
\* a descriptor exactly when one body segment is a sequence candidate, and
\* fails with a RuntimeError for none and for two or more; a returned
\* descriptor holds one counter token.
C10_ExactlyOneCandidate ==
    (res.op = "infer" /\ ValidSample(im.filename)
        /\ Cardinality(SameExt(im.filename)) >= 2)
    => LET c == Cardinality(Candidates(im.filename))
       IN  /\ (c = 1 <=> im.status = "ok")
           /\ (c # 1 => im.status = "RuntimeError")
           /\ (im.status = "ok"
                 => extract_digit_format_specifiers(im.dfs_filename).n = 1)

C10_Witness ==
    /\ res.op = "infer"
    /\ ValidSample(im.filename)
    /\ Cardinality(Candidates(im.filename)) = 2
    /\ im.status = "RuntimeError"

\* C11: inference fails, and constructs no descriptor, whenever the sample
\* path does not exist, is not a regular file, has an extension outside the
\* allowed ones (compared without regard to case) or a filename with a "%":
\* an IOError for the first three, a ValueError for the "%".
C11_InvalidInputFails ==
    res.op = "infer"
    => LET n == im.filename
       IN  /\ (~path_isfile(fs, "src", n) \/ ext_key(n) \notin SUPP_IM_FORMATS)
                 => im.status = "IOError"
           /\ (\E k \in 1..Len(n) : n[k] = "%")
                 => im.status \in {"IOError", "ValueError"}
           /\ ~ValidSample(n) => (im.dfs_filename = <<>> /\ im.start_num = -1)
           /\ (ValidSample(n) /\ splitext(n).ext # str_upper(splitext(n).ext))
                 => im.status \notin {"IOError", "ValueError"}

C11_Witness ==
    /\ res.op = "infer"
    /\ im.filename = PercentName
    /\ im.status = "ValueError"
    /\ Cardinality(Dir) = 3
    /\ path_isdir(fs, "src", DirName)

\* The number of counter tokens of the pattern.
TokenCount == extract_digit_format_specifiers(im.dfs_filename).n

\* C12: every descriptor either has start number -1, a pattern without a
\* counter token that is the filename itself, and fewer than 2 files of the
\* extension; or a start number >= 0, at least 2 such files and a pattern
\* with exactly one counter token.  -1 never goes with a counter token.
C12_DescriptorInvariant ==
    im.status = "ok"
    => /\ \/ /\ im.start_num = -1
             /\ TokenCount = 0
             /\ im.dfs_filename = im.filename
             /\ im.fcount < 2
             /\ Cardinality(SameExt(im.filename)) < 2
          \/ /\ im.start_num >= 0
             /\ im.fcount >= 2
             /\ Cardinality(SameExt(im.filename)) >= 2
             /\ TokenCount = 1
             /\ im.dfs_filename # im.filename
       /\ ~(im.start_num = -1 /\ TokenCount > 0)
       /\ im.fcount = Cardinality(SameExt(im.filename))

C12_Witness ==
    /\ im.status = "ok"
    /\ im.start_num = im.sample_num
    /\ im.start_num > 0
    /\ TokenCount = 1
    /\ im.fcount = 2
    /\ Cardinality(Dir) = 3

\* The counter of filename n under the descriptor's pattern: what stands
\* between the pattern's part before the token and its part after it.
CounterIn(n) ==
    LET e   == extract_digit_format_specifiers(im.dfs_filename)
        idx == e.indices[1]
        suf == Len(im.dfs_filename) - idx - Len(e.specs[1])
    IN  slice(n, idx, Len(n) - suf)

\* C13: the sorted listing is in non-decreasing order of the integer value of
\* the counters, whatever their digit counts and padding (9 before 10); it
\* lists files of the directory, each once, each with a counter of digits.
C13_NumericOrder ==
    res.op = "get_sequence_files"
    => /\ \A i, j \in 1..Len(res.files) :
             i < j => /\ to_int(CounterIn(res.files[i])) <= to_int(CounterIn(res.files[j]))
                      /\ res.files[i] # res.files[j]
       /\ \A i \in 1..Len(res.files) :
             /\ path_isfile(fs, "src", res.files[i])
             /\ str_isdigit(CounterIn(res.files[i]))

\* An unpadded counter of one digit is listed right before one of two digits.
C13_Witness ==
    /\ res.op = "get_sequence_files"
    /\ \E i \in 1..(Len(res.files) - 1) :
          /\ Len(CounterIn(res.files[i])) = 1
          /\ Len(CounterIn(res.files[i + 1])) = 2
          /\ to_int(CounterIn(res.files[i])) > 1
          /\ to_int(CounterIn(res.files[i + 1])) = 10
          /\ str_less(res.files[i + 1], res.files[i])

NoDigit(x) == \A k \in 1..Len(x) : ~char_isdigit(x[k])

\* The body of filename n: head, flattened midsection and tail of its root.
BodyOf(n) ==
    LET sd == split_at_digit(splitext(n).root, FALSE)
    IN  get_body(sd.head, sd.mid, sd.tail)

\* The Python index at which segment i of body b starts.
OffsetOf(b, i) == Len(str_join(SubSeq(b, 1, i - 1)))

\* Segment i of the body of n is all digits and some other file of the
\* extension has another string at the segment's character offsets.
DigitsAndDiffers(n, i) ==
    LET b  == BodyOf(n)
        si == OffsetOf(b, i)
    IN  /\ str_isdigit(b[i])
        /\ \E m \in SameExt(n) \ {n} :
              slice(splitext(m).root, si, si + Len(b[i])) # b[i]

\* C19: a body segment is a sequence candidate exactly when it is all digits
\* and the Levenshtein distances to the substrings at its offsets in the
\* other files of the extension sum to more than zero, which is when one of
\* those substrings is another string; the pattern has the token in the
\* place of the one candidate.
C19_CandidateIffDigitsAndDiffers ==
    (res.op = "infer" /\ ValidSample(im.filename)
        /\ Cardinality(SameExt(im.filename)) >= 2)
    => LET n == im.filename
           b == BodyOf(n)
           selected == {i \in 1..Len(b) : DigitsAndDiffers(n, i)}
       IN  /\ Candidates(n) = selected
           /\ im.status = "ok" <=> Cardinality(selected) = 1
           /\ im.status = "ok"
                => \A i \in selected :
                      im.dfs_filename
                        = str_join(SubSeq(b, 1, i - 1)) \o Token(Len(b[i]))
                          \o str_join(SubSeq(b, i + 1, Len(b))) \o splitext(n).ext

\* One digit segment is selected, another is the same in every file, and a
\* segment without digits differs.
C19_Witness ==
    /\ res.op = "infer"
    /\ im.status = "ok"
    /\ Cardinality(SameExt(im.filename)) >= 2
    /\ LET b == BodyOf(im.filename)
       IN  /\ \E i \in 1..Len(b) : str_isdigit(b[i]) /\ ~DigitsAndDiffers(im.filename, i)
           /\ \E i \in 1..Len(b) : DigitsAndDiffers(im.filename, i)

\* The ways [pre, suf] to read the filenames S as one sequence with a fixed
\* digit token: each is pre + counter + suf + extension with a counter of
\* any number of digits between neighbours that are no digits, and pre or suf
\* holds a digit.
FixedTokenShapes(S) ==
    LET n0 == CHOOSE n \in S : TRUE
        r0 == splitext(n0).root
        all == {[pre |-> slice(r0, 0, i), suf |-> slice_from(r0, j)] :
                    i \in 0..Len(r0), j \in 0..Len(r0)}
        fits(sh, n) ==
            LET r == splitext(n).root
                a == Len(sh.pre)
                z == Len(r) - Len(sh.suf)
            IN  /\ splitext(n).ext = splitext(n0).ext
                /\ a < z
                /\ slice(r, 0, a) = sh.pre
                /\ slice_from(r, z) = sh.suf
                /\ str_isdigit(slice(r, a, z))
    IN  {sh \in all :
            /\ (Len(sh.pre) > 0 => ~char_isdigit(sh.pre[Len(sh.pre)]))
            /\ (Len(sh.suf) > 0 => ~char_isdigit(sh.suf[1]))
            /\ ~NoDigit(sh.pre \o sh.suf)
            /\ \A n \in S : fits(sh, n)
            /\ \E n, m \in S : splitext(n).root # splitext(m).root}

\* C20: in a directory that is one sequence with a fixed digit token beside
\* the counter, the token is never taken for the counter: inference returns
\* the pattern that keeps the token's digits and has the counter token in
\* the counter's place, also when the counter is unpadded and has different
\* numbers of digits in different files.
C20_FixedTokenNotSelected ==
    (res.op = "infer" /\ ValidSample(im.filename) /\ Cardinality(Dir) >= 2)
    => \A sh \in FixedTokenShapes(Dir) :
          /\ im.status = "ok"
          /\ \E w \in 1..Len(im.filename) :
                im.dfs_filename = sh.pre \o Token(w) \o sh.suf \o im.ext

\* ---------------------------------------------------- utils: properties

\* C15: for a non-empty root, head, flattened midsection and tail concatenate
\* to the root; no segment is empty; each is all digits or free of digits; no
\* two neighbours are of the same class; a root of one character is one
\* segment.
C15_DecomposeLosslessMinimal ==
    (res.op = "split_at_digit" /\ Len(res.arg) > 0)
    => /\ res.error = ""
       /\ Len(res.body) >= 1
       /\ str_join(res.body) = res.arg
       /\ \A i \in 1..Len(res.body) :
             /\ Len(res.body[i]) > 0
             /\ str_isdigit(res.body[i]) \/ NoDigit(res.body[i])
       /\ \A i \in 1..(Len(res.body) - 1) :
             str_isdigit(res.body[i]) # str_isdigit(res.body[i + 1])
       /\ (Len(res.arg) = 1 => Len(res.body) = 1)

\* A root of four segments: the midsection is a list.
C15_Witness ==
    /\ res.op = "split_at_digit"
    /\ Len(res.body) = 4
    /\ str_isdigit(res.body[1])
    /\ str_join(res.body) = res.arg

\* C16: for a non-empty string of digits the specifier has the width of the
\* string's length, leading zeros counted, when that is more than 1, and is
\* the unpadded one for a single digit.
C16_WidthIsLength ==
    (res.op = "parse_digit_format_specifier" /\ str_isdigit(res.arg))
    => /\ res.spec.ok
       /\ res.spec.val = IF Len(res.arg) > 1
                         THEN <<"%", "0">> \o to_str(Len(res.arg)) \o <<"d">>
                         ELSE <<"%", "d">>

C16_Witness ==
    /\ res.op = "parse_digit_format_specifier"
    /\ res.arg = <<"0", "7", "7">>
    /\ res.spec.val = <<"%", "0", "3", "d">>

\* C17: parse_digit_format_specifier raises a ValueError for the empty
\* string and for every string with a character that is no decimal digit, a
\* sign or surrounding blanks included; it returns a specifier only for a
\* non-empty string of digits.
C17_NonDigitsRejected ==
    res.op = "parse_digit_format_specifier"
    => (res.spec.ok <=> str_isdigit(res.arg))

\* The specifier of width W, as parse_digit_format_specifier writes it.
Specifier(w) == <<"%", "0">> \o to_str(w) \o <<"d">>

\* C18: to_re_pattern gives \d+ for the unpadded specifier, strict or not,
\* and for the specifier of width W >= 2 (W >= 10 included) \d{W} when strict
\* and \d{1,W} when not.
C18_ToRegex ==
    res.op = "to_re_pattern"
    => LET w == Len(res.arg)
       IN  /\ res.error = ""
           /\ res.spec.val = (IF w = 1 THEN <<"%", "d">> ELSE Specifier(w))
           /\ res.pattern =
                 IF w = 1 THEN <<"\\", "d", "+">>
                 ELSE IF res.strict THEN <<"\\", "d", "{">> \o to_str(w) \o <<"}">>
                 ELSE <<"\\", "d", "{", "1", ",">> \o to_str(w) \o <<"}">>

C18_Witness ==
    /\ res.op = "to_re_pattern"
    /\ Len(res.arg) >= 10
    /\ ~res.strict
    /\ res.pattern = <<"\\", "d", "{", "1", ",">> \o to_str(Len(res.arg)) \o <<"}">>

\* ---------------------------------------------------- rename: properties

\* A rename of a sequence (not of a single image) has been called.
Called == rn.pc # "idle" /\ im.start_num >= 0

SameDir == io.output_dir = io.input_dir

\* The sequence files at the call, in the order of their counters, and their
\* contents.
FilesAtCall == rn.files

DataAtCall == {rn.before.src[FilesAtCall[j]].data : j \in 1..Len(FilesAtCall)}

\* The files of the directory dir that hold the content d.
HoldersIn(dir, d) ==
    {n \in listdir(fs, dir) : fs[dir][n].kind = "file" /\ fs[dir][n].data = d}

\* The number of files that hold the content d.
Holders(d) ==
    Cardinality(HoldersIn("src", d)) + Cardinality(HoldersIn("dst", d))
    + Cardinality(HoldersIn("tmp", d))

\* The files of the input directory that hold the content of a sequence file.
SequenceFilesNow ==
    {n \in listdir(fs, "src") :
        fs.src[n].kind = "file" /\ fs.src[n].data \in DataAtCall}

\* The root of the filename has a maximal run of digits with the value c.
CarriesCounter(n, c) ==
    LET r == splitext(n).root
    IN  \E a \in 0..(Len(r) - 1), b \in 1..Len(r) :
            /\ a < b
            /\ str_isdigit(slice(r, a, b))
            /\ (a > 0 => ~char_isdigit(r[a]))
            /\ (b < Len(r) => ~char_isdigit(r[b + 1]))
            /\ to_int(slice(r, a, b)) = c

\* C4: a rename of an n-file sequence with start number k into its own
\* directory that ends without an error leaves exactly n files of the
\* sequence in the directory, one for each counter k..k+n-1, and no
\* temporary directory.
C4_SameDirectoryRename ==
    (Called /\ rn.pc = "done" /\ SameDir)
    => LET n == Len(get_sequence_files(rn.before, im))
           counters == rn.start_num..(rn.start_num + n - 1)
       IN  /\ ~tmp_exists(fs)
           /\ listdir(fs, "tmp") = {}
           /\ Cardinality(SequenceFilesNow) = n
           /\ \E h \in [counters -> SequenceFilesNow] :
                 /\ \A c \in counters : CarriesCounter(h[c], c)
                 /\ \A c, d \in counters : c # d => h[c] # h[d]

C4_Witness ==
    /\ Called
    /\ rn.pc = "done"
    /\ SameDir
    /\ Len(FilesAtCall) = 3
    /\ rn.start_num = WideOffset
    /\ Cardinality(SequenceFilesNow) = 3

\* No file is staged and none has reached the output directory.
Pending ==
    /\ listdir(fs, "tmp") = {}
    /\ fs.src = rn.before.src
    /\ fs.dst = rn.before.dst

\* Every sequence file is in the temporary directory under its new name, and
\* none has reached the output directory.
Staged ==
    /\ Len(rn.tmp_filepaths) = Len(FilesAtCall)
    /\ \A j \in 1..Len(FilesAtCall) :
          /\ path_isfile(fs, "tmp", rn.tmp_filepaths[j])
          /\ fs.tmp[rn.tmp_filepaths[j]].data = rn.before.src[FilesAtCall[j]].data
    /\ \A n \in listdir(fs, io.output_dir) :
          n \in listdir(rn.before, io.output_dir)
          /\ fs[io.output_dir][n] = rn.before[io.output_dir][n]

\* C5: a rename of a sequence that fails at the creation of the temporary
\* directory, at a move or copy into it, or at a move out of it, leaves the
\* directories PENDING or STAGED, never with only some of the files staged or
\* only some in the output directory.
C5_FailureLeavesPendingOrStaged ==
    (Called /\ rn.pc = "failed" /\ rn.error = "OSError") => (Pending \/ Staged)

\* C6: each file is moved into the temporary directory exactly if the input
\* and the output directory are the same directory, and copied otherwise; so
\* after a rename into another directory every sequence file is still in the
\* input directory under its name.
C6_MoveIffSameDirectory ==
    Called
    => /\ \A j \in 1..Len(rn.moved) : rn.moved[j] = SameDir
       /\ ((rn.pc = "done" /\ ~SameDir)
            => \A j \in 1..Len(FilesAtCall) :
                  /\ path_isfile(fs, "src", FilesAtCall[j])
                  /\ fs.src[FilesAtCall[j]] = rn.before.src[FilesAtCall[j]])

\* The new name of one sequence file is the old name of another one.
Collision ==
    \E i, j \in 1..Len(rn.tmp_filepaths) :
        i # j /\ j <= Len(FilesAtCall) /\ rn.tmp_filepaths[i] = FilesAtCall[j]

\* C7: in a rename into the same directory the content of every sequence
\* file is held by exactly one file at every step, whatever new names are old
\* names of other files; after the rename the n contents are under the n new
\* names in the directory.
C7_CollisionLosesNoData ==
    (Called /\ SameDir)
    => /\ \A d \in DataAtCall : Holders(d) = 1
       /\ (rn.pc = "done"
            => \A j \in 1..Len(FilesAtCall) :
                  /\ path_isfile(fs, "src", rn.tmp_filepaths[j])
                  /\ fs.src[rn.tmp_filepaths[j]].data = rn.before.src[FilesAtCall[j]].data)

C7_Witness ==
    /\ Called
    /\ SameDir
    /\ rn.pc = "done"
    /\ Collision
    /\ Len(FilesAtCall) = 3
    /\ rn.start_num = 2

HasDigitRun(n, d) ==
    LET r == splitext(n).root
    IN  \E a \in 0..(Len(r) - Len(d)) :
            /\ slice(r, a, a + Len(d)) = d
            /\ (a > 0 => ~char_isdigit(r[a]))
            /\ (a + Len(d) < Len(r) => ~char_isdigit(r[a + Len(d) + 1]))

\* C21: with start number k and the n files of the listing in the order of
\* their counters, the j-th staged file (j = 0..n-1) has the counter k + j in
\* its new name, zero-padded to the width of the decimal digits of n + k; the
\* new names are pairwise distinct, and after the rename the j-th new name
\* holds the content of the j-th file.
C21_CountersConsecutivePadded ==
    Called
    => LET n == Len(FilesAtCall)
           k == rn.start_num
           W == Len(to_str(n + k))
           new == rn.tmp_filepaths
       IN  /\ rn.width = W \/ rn.step = "mkdir"
           /\ \A j \in 1..Len(new) :
                 /\ HasDigitRun(new[j], zfill(to_str(k + j - 1), W))
                 /\ splitext(new[j]).ext = splitext(FilesAtCall[j]).ext
           /\ \A i, j \in 1..Len(new) : i # j => new[i] # new[j]
           /\ \A i, j \in 1..n :
                 i < j => to_int(CounterIn(FilesAtCall[i])) <= to_int(CounterIn(FilesAtCall[j]))
           /\ rn.pc = "done"
                => /\ Len(new) = n
                   /\ \A j \in 1..n :
                         /\ path_isfile(fs, io.output_dir, new[j])
                         /\ fs[io.output_dir][new[j]].data = rn.before.src[FilesAtCall[j]].data

\* Three files renamed into another directory from a start number that
\* widens the counter.
C21_Witness ==
    /\ Called
    /\ rn.pc = "done"
    /\ ~SameDir
    /\ Len(rn.tmp_filepaths) = 3
    /\ rn.start_num = WideOffset
    /\ rn.width = 2

\* The root of the pattern, its counter token and the index of the token.
PatternRoot == splitext(im.dfs_filename).root

PatternToken == extract_digit_format_specifiers(im.dfs_filename).specs[1]

CounterTrailing ==
    str_find(PatternRoot, PatternToken) + Len(PatternToken) = Len(PatternRoot)

CounterLeading == str_find(PatternRoot, PatternToken) = 0

\* C22: where the output root is not the filename root without its counter,
\* the new name has the counter behind the output root if the counter was the
\* last segment of the root, and in front of it if it was the first one.
C22_CounterKeepsItsSide ==
    Called
    => \A j \in 1..Len(rn.tmp_filepaths) :
          LET old    == splitext(FilesAtCall[j]).root
              rest   == slice(old, 0, str_find(PatternRoot, PatternToken))
                        \o slice_from(old, Len(old) - (Len(PatternRoot)
                              - str_find(PatternRoot, PatternToken) - Len(PatternToken)))
              number == zfill(to_str(rn.start_num + j - 1), rn.width)
              new    == splitext(rn.tmp_filepaths[j]).root
          IN  (rest # io.output_root /\ CounterTrailing # CounterLeading)
              => new = IF CounterTrailing THEN io.output_root \o number
                       ELSE number \o io.output_root

\* The rename has failed in the commit loop or right after it, with no file
\* moved out of the temporary directory.
ZeroCommitted ==
    /\ Called
    /\ rn.pc = "failed"
    /\ rn.step \in {"commit", "committed"}
    /\ rn.count = 0

\* The temporary directory exists and holds every staged file, and the output
\* directory has received none of the new names.
StagingKept ==
    /\ tmp_exists(fs)
    /\ Len(rn.tmp_filepaths) >= 1
    /\ \A j \in 1..Len(rn.tmp_filepaths) :
          /\ path_isfile(fs, "tmp", rn.tmp_filepaths[j])
          /\ fs.tmp[rn.tmp_filepaths[j]].data = rn.before.src[FilesAtCall[j]].data
    /\ \A n \in listdir(fs, io.output_dir) \ {TmpName} :
          /\ n \in listdir(rn.before, io.output_dir)
          /\ fs[io.output_dir][n] = rn.before[io.output_dir][n]

MemberNames == {FilesAtCall[j] : j \in 1..Len(FilesAtCall)}

\* C28: a rename never deletes, overwrites or renames a file that is not a
\* member of the sequence: every such file of the input or the output
\* directory at the call is there with the same content at every step of the
\* rename and after it, whatever the output root and the start number.
C28_OtherFilesUntouched ==
    Called =>
        \A dir \in {"src", "dst"} :
            \A n \in DOMAIN rn.before[dir] \ MemberNames :
                n \in DOMAIN fs[dir] /\ fs[dir][n] = rn.before[dir][n]

\* C29: for every sequence descriptor the canonical pattern rendered with the
\* counter value of the sample is the filename of the sample: the same
\* digits, the same zero padding, the same extension.
C29_PatternRendersSample ==
    (im.status = "ok" /\ im.start_num >= 0)
    => py_format(im.dfs_filename, im.sample_num) = im.filename

C29_Witness ==
    /\ im.status = "ok"
    /\ im.start_num >= 0
    /\ im.start_num < im.sample_num
    /\ im.filename = numbered(<<"a">>, 2, 2, <<>>, PNG)
    /\ im.dfs_filename = <<"a">> \o Specifier(2) \o PNG

\* The call r has made the temporary directory and has not ended.
InProgress(r) == r.pc \in {"staging", "commit"}

\* The directory f has an entry of the name of the temporary directory.
StagingDirIn(f) == TmpName \in DOMAIN f.src

\* The call r began when the temporary directory existed.
BeganOnExisting(r) == r.pc # "idle" /\ StagingDirIn(r.before)

\* The call r failed at os.mkdir with nothing staged, moved or copied.
FailedAtMkdir(r) ==
    /\ r.pc = "failed"
    /\ r.step = "mkdir"
    /\ r.error = "OSError"
    /\ r.files = <<>>
    /\ r.tmp_filepaths = <<>>
    /\ r.moved = <<>>

\* C30: of two renames of the same input directory that derive the same
\* temporary directory name, at most one makes the directory and stages
\* files into it while the other is in progress; a call that begins while
\* the directory exists fails at os.mkdir with nothing staged, moved or
\* copied.
C30_OneStagingOwner ==
    /\ ~(InProgress(rn) /\ InProgress(res))
    /\ BeganOnExisting(rn) => FailedAtMkdir(rn)
    /\ BeganOnExisting(res) => FailedAtMkdir(res)
    /\ (InProgress(rn) \/ InProgress(res)) => StagingDirIn(fs)

C30_Witness ==
    /\ InProgress(res)
    /\ Len(res.tmp_filepaths) >= 1
    /\ BeganOnExisting(rn)
    /\ FailedAtMkdir(rn)
    /\ rn.before.tmp # NoEntries

\* The directory holds one numbered sequence whose counter is not padded.
OneUnpaddedSequence ==
    /\ listdir(fs, "src") \subseteq {numbered(<<"a">>, c, 1, <<>>, PNG) : c \in {1, 2, 9, 10}}
    /\ Cardinality(listdir(fs, "src")) >= 2

\* C26: in a directory that holds one numbered sequence, the descriptor has
\* the same canonical pattern and the same start number whichever member of
\* the sequence is the sample, also when the counter is not zero-padded.
C26_SampleIndependent ==
    (im.status = "ok" /\ OneUnpaddedSequence) =>
        \A n \in listdir(fs, "src") :
            LET other == ImageSequence(fs, "src", n, Some(SUPP_IM_FORMATS))
            IN  /\ other.status = "ok"
                /\ other.dfs_filename = im.dfs_filename
                /\ other.start_num = im.start_num

\* The filename n is the pattern dfs with its specifier replaced by digits.
FitsPattern(n, dfs) ==
    LET e == extract_digit_format_specifiers(dfs)
        h == slice(dfs, 0, e.indices[1])
        t == slice_from(dfs, e.indices[1] + Len(e.specs[1]))
    IN  /\ Len(n) > Len(h) + Len(t)
        /\ slice(n, 0, Len(h)) = h
        /\ slice_from(n, Len(n) - Len(t)) = t
        /\ str_isdigit(slice(n, Len(h), Len(n) - Len(t)))

\* C27: for a sequence descriptor and an unchanged directory, the listing
\* contains the filename of the sample, and every filename of the listing is
\* the canonical pattern with its counter token replaced by decimal digits,
\* also when the filename has characters that are special in regular
\* expressions.
C27_ListingOfSpecialNames ==
    res.op = "get_sequence_files" =>
        /\ \E j \in 1..Len(res.files) : res.files[j] = im.filename
        /\ \A j \in 1..Len(res.files) : FitsPattern(res.files[j], im.dfs_filename)

\* ------------------------------------------- live directory: properties

\* C24: a descriptor is fixed at its construction: whatever queries are made
\* and whatever files are added to or removed from the directory afterwards,
\* get_start_number reports the start number of the construction and
\* detect_gaps the gaps among the files of the construction.
C24_DescriptorFixed ==
    /\ res.op = "get_start_number" => res.start = im.start_num
    /\ res.op = "detect_gaps" => res.gaps = detect_gaps(im)
    /\ im.status = "ok" => Len(im.files) = im.fcount

\* --------------------------------------------------- strip: properties

\* The head and the tail of the root of the call, around the specifier.
HeadOfCall == slice(res.arg, 0, extract_digit_format_specifiers(res.arg).indices[1])

TailOfCall ==
    slice_from(res.arg, extract_digit_format_specifiers(res.arg).indices[1] + Len(Specifier3))

\* The specifier is between special characters that have other content
\* beyond them, on both sides.
InteriorBothSides ==
    /\ chars_at_tail(HeadOfCall, SPECIAL_CHARS) \in 1..(Len(HeadOfCall) - 1)
    /\ chars_at_head(TailOfCall, SPECIAL_CHARS) \in 1..(Len(TailOfCall) - 1)

\* C25: for a root whose specifier has special characters next to it on both
\* sides and other content beyond them on both sides, the special characters
\* are removed from the end of the head and from the start of the tail, and
\* both removed runs are in the returned map.
C25_StripsBothSides ==
    (res.op = "strip_digit_format_specifier" /\ InteriorBothSides) =>
        LET nh == chars_at_tail(HeadOfCall, SPECIAL_CHARS)
            nt == chars_at_head(TailOfCall, SPECIAL_CHARS)
        IN  /\ res.val = slice(HeadOfCall, 0, Len(HeadOfCall) - nh) \o slice_from(TailOfCall, nt)
            /\ \E k \in DOMAIN res.culled :
                   res.culled[k] = slice_from(HeadOfCall, Len(HeadOfCall) - nh)
            /\ \E k \in DOMAIN res.culled : res.culled[k] = slice(TailOfCall, 0, nt)

====
